---- MODULE Spec2Model ----
(***************************************************************************)
(* Model of the verifyreceipt backend: the reference-verification          *)
(* orchestrator (backend/app/main.py), its result cache, the per-provider  *)
(* local rate limiters, the local receipt extractors with their circuit    *)
(* breakers and retry loop, and the status/field normaliser.               *)
(*                                                                         *)
(* Python values are modelled as tagged records so that isinstance tests   *)
(* can be written: strings are sequences of one-character strings, and a   *)
(* dict is a TLA+ record (a function from key names to tagged values).     *)
(***************************************************************************)
EXTENDS Integers, Sequences, FiniteSets, TLC

(***************************************************************************)
(* Bounds of the model.                                                    *)
(***************************************************************************)
MaxTime == 2

MaxRequests == 3

(***************************************************************************)
(* Python values.                                                          *)
(***************************************************************************)
None == [t |-> "none"]

PyStr(s) == [t |-> "str", v |-> s]

PyBool(b) == [t |-> "bool", v |-> b]

PyNum(n) == [t |-> "num", v |-> n]

PyDict(d) == [t |-> "dict", v |-> d]

\* A float with two decimals, held as its number of hundredths.
PyFloat(h) == [t |-> "float", h |-> h]

IsStr(x) == x.t = "str"

IsBool(x) == x.t = "bool"

IsDict(x) == x.t = "dict"

\* Python truthiness, as used by the `a or b` chains of the source.
Truthy(x) ==
    CASE x.t = "none" -> FALSE
      [] x.t = "str"  -> Len(x.v) > 0
      [] x.t = "bool" -> x.v
      [] x.t = "num"  -> x.v # 0
      [] x.t = "float" -> x.h # 0
      [] x.t = "dict" -> DOMAIN x.v # {}

\* Python `a or b`.
PyOr(a, b) == IF Truthy(a) THEN a ELSE b

\* dict.get(key) with the default None; d is a record.
Get(d, k) == IF k \in DOMAIN d THEN d[k] ELSE None

(***************************************************************************)
(* Strings: str.lower(), str.strip() and the `needle in text` test.        *)
(***************************************************************************)
UpperChars == <<"A","B","C","D","E","F","G","H","I","J","K","L","M",
                "N","O","P","Q","R","S","T","U","V","W","X","Y","Z">>

LowerChars == <<"a","b","c","d","e","f","g","h","i","j","k","l","m",
                "n","o","p","q","r","s","t","u","v","w","x","y","z">>

DigitChars == <<"0","1","2","3","4","5","6","7","8","9">>

LowerChar(c) ==
    IF \E i \in 1..26 : UpperChars[i] = c
    THEN LowerChars[CHOOSE i \in 1..26 : UpperChars[i] = c]
    ELSE c

Lower(s) == [i \in 1..Len(s) |-> LowerChar(s[i])]

IsSpace(c) == c \in {" ", "\t", "\n", "\r"}

Strip(s) ==
    LET nonsp == {i \in 1..Len(s) : ~IsSpace(s[i])}
    IN  IF nonsp = {} THEN <<>>
        ELSE LET lo == CHOOSE i \in nonsp : \A j \in nonsp : i <= j
                 hi == CHOOSE i \in nonsp : \A j \in nonsp : j <= i
             IN  SubSeq(s, lo, hi)

\* Python `needle in text` for two strings.
Contains(text, needle) ==
    \E i \in 1..(Len(text) - Len(needle) + 1) :
        SubSeq(text, i, i + Len(needle) - 1) = needle

IsAlnumChar(c) ==
    \/ \E i \in 1..26 : UpperChars[i] = c \/ LowerChars[i] = c
    \/ \E i \in 1..10 : DigitChars[i] = c

\* re.fullmatch(r"[A-Za-z0-9]+", s)
IsAlnum(s) == Len(s) > 0 /\ \A i \in 1..Len(s) : IsAlnumChar(s[i])

(***************************************************************************)
(* String literals of the source.                                          *)
(***************************************************************************)
W_success == <<"s","u","c","c","e","s","s">>
W_successful == <<"s","u","c","c","e","s","s","f","u","l">>
W_verified == <<"v","e","r","i","f","i","e","d">>
W_paid == <<"p","a","i","d">>
W_ok == <<"o","k">>
W_failed == <<"f","a","i","l","e","d">>
W_invalid == <<"i","n","v","a","l","i","d">>
W_not_found_us == <<"n","o","t","_","f","o","u","n","d">>
W_not_found == <<"n","o","t"," ","f","o","u","n","d">>
W_unverified == <<"u","n","v","e","r","i","f","i","e","d">>
W_error == <<"e","r","r","o","r">>
W_pending == <<"p","e","n","d","i","n","g">>
W_processing == <<"p","r","o","c","e","s","s","i","n","g">>
W_unknown == <<"u","n","k","n","o","w","n">>
W_try_again == <<"t","r","y"," ","a","g","a","i","n">>
W_receipt_not_found == <<"r","e","c","e","i","p","t"," ","n","o","t"," ","f","o","u","n","d">>
W_puppeteer == <<"p","u","p","p","e","t","e","e","r">>
W_could_not_find_chrome ==
    <<"c","o","u","l","d"," ","n","o","t"," ","f","i","n","d"," ","c","h","r","o","m","e">>
W_chrome_ver == <<"c","h","r","o","m","e"," ","(","v","e","r",".">>
W_browsers_install == <<"b","r","o","w","s","e","r","s"," ","i","n","s","t","a","l","l">>
W_browser_install == <<"b","r","o","w","s","e","r"," ","i","n","s","t","a","l","l">>
W_pptr_dev == <<"p","p","t","r",".","d","e","v">>
W_cache_path == <<"c","a","c","h","e"," ","p","a","t","h">>
W_chromium == <<"c","h","r","o","m","i","u","m">>
\* The message of the dict that _try_local builds on a not-found signal.
M_Receipt_not_found == <<"R","e","c","e","i","p","t"," ","n","o","t"," ","f","o","u","n","d">>

(***************************************************************************)
(* normalize.py                                                            *)
(***************************************************************************)
StatusSuccessWords == {W_success, W_successful, W_verified, W_paid, W_ok}

StatusFailedWords == {W_failed, W_invalid, W_not_found_us, W_not_found, W_unverified, W_error}

StatusPendingWords == {W_pending, W_processing, W_unknown}

\* The verdict of a stripped, lower-cased status word, or "".
StatusWordVerdict(v) ==
    IF v \in StatusSuccessWords THEN "SUCCESS"
    ELSE IF v \in StatusFailedWords THEN "FAILED"
    ELSE IF v \in StatusPendingWords THEN "PENDING"
    ELSE ""

\* The verdict of one status/result/state key, or "" when the key does not decide.
StatusKeyVerdict(raw, key) ==
    IF IsStr(Get(raw, key)) THEN StatusWordVerdict(Lower(Strip(Get(raw, key).v))) ELSE ""

\* The verdict of a boolean key with False deciding nothing.
BoolKeyVerdict_TrueOnly(raw, key) ==
    IF IsBool(Get(raw, key)) /\ Get(raw, key).v THEN "SUCCESS" ELSE ""

BoolKeyVerdict(raw, key) ==
    IF IsBool(Get(raw, key)) THEN (IF Get(raw, key).v THEN "SUCCESS" ELSE "FAILED") ELSE ""

\* The first verdict of the sequence that decides, or "": the loop returns
\* at the first key that decides.
FirstDeciding(verdicts) ==
    LET deciding == {i \in 1..Len(verdicts) : verdicts[i] # ""}
    IN  IF deciding = {} THEN ""
        ELSE verdicts[CHOOSE i \in deciding : \A j \in deciding : i <= j]

\* for key in ("status", "result", "state")
FirstStatusVerdict(raw, keys) ==
    FirstDeciding([i \in 1..Len(keys) |-> StatusKeyVerdict(raw, keys[i])])

\* for key in ("success", "verified", "isVerified", "is_verified")
FirstBoolVerdict(raw, keys) ==
    FirstDeciding([i \in 1..Len(keys) |-> BoolKeyVerdict(raw, keys[i])])

\* The verdict of the lower-cased message m with the failure keywords looked
\* for before the pending keywords.
MessageTextVerdict_FailureFirst(m) ==
    IF Contains(m, W_invalid) \/ Contains(m, W_not_found) \/ Contains(m, W_failed)
    THEN "FAILED"
    ELSE IF Contains(m, W_pending) \/ Contains(m, W_processing) \/ Contains(m, W_try_again)
    THEN "PENDING"
    ELSE IF Contains(m, W_success) \/ Contains(m, W_verified)
    THEN "SUCCESS"
    ELSE ""

\* The verdict of the lower-cased message m, or "".
MessageTextVerdict(m) ==
    IF Contains(m, W_pending) \/ Contains(m, W_processing) \/ Contains(m, W_try_again)
    THEN "PENDING"
    ELSE IF Contains(m, W_invalid) \/ Contains(m, W_not_found) \/ Contains(m, W_failed)
    THEN "FAILED"
    ELSE IF Contains(m, W_success) \/ Contains(m, W_verified)
    THEN "SUCCESS"
    ELSE ""

\* msg = raw.get("message") or raw.get("detail")
MessageOf(raw) == PyOr(Get(raw, "message"), Get(raw, "detail"))

MessageVerdict(raw) ==
    IF IsStr(MessageOf(raw)) THEN MessageTextVerdict(Lower(MessageOf(raw).v)) ELSE ""

\* The first of the three verdicts that decides; SUCCESS when none does.
FirstOrPending_DefaultSuccess(byStatus, byBool, byMsg) ==
    IF byStatus # "" THEN byStatus
    ELSE IF byBool # "" THEN byBool
    ELSE IF byMsg # "" THEN byMsg
    ELSE "SUCCESS"

\* The first of the three verdicts that decides; PENDING when none does.
FirstOrPending(byStatus, byBool, byMsg) ==
    IF byStatus # "" THEN byStatus
    ELSE IF byBool # "" THEN byBool
    ELSE IF byMsg # "" THEN byMsg
    ELSE "PENDING"

normalize_status(raw) ==
    FirstOrPending(FirstStatusVerdict(raw, <<"status", "result", "state">>),
                   FirstBoolVerdict(raw, <<"success", "verified", "isVerified", "is_verified">>),
                   MessageVerdict(raw))

RECURSIVE NatToStr(_)
\* str(n) for a natural number n.
NatToStr(n) ==
    IF n < 10 THEN <<DigitChars[n + 1]>>
    ELSE NatToStr(n \div 10) \o <<DigitChars[(n % 10) + 1]>>

\* _as_str; dict-valued fields do not occur in the inputs of this model.
AsStr(value) ==
    CASE value.t = "none" -> None
      [] value.t = "str"  -> value
      [] value.t = "num"  -> PyStr(NatToStr(value.v))
      [] value.t = "bool" -> PyStr(IF value.v THEN <<"T","r","u","e">>
                                              ELSE <<"F","a","l","s","e">>)
      [] OTHER -> PyStr(<<"{","}">>)

\* normalize_fields: <<amount, payer, date, reference>>.  Amounts of the
\* model's inputs are numbers or absent; float(amount) keeps a number.
normalize_fields(raw) ==
    LET src == IF IsDict(Get(raw, "data")) THEN raw["data"].v ELSE raw
        amount == PyOr(PyOr(Get(src, "amount"), Get(src, "total")), Get(src, "totalAmount"))
        amount_f == IF amount.t \in {"num", "float"} THEN amount
                    ELSE IF amount.t = "bool" THEN PyNum(IF amount.v THEN 1 ELSE 0)
                    ELSE None
        payer == AsStr(PyOr(PyOr(PyOr(PyOr(Get(src, "payer"), Get(src, "payerName")),
                                      Get(src, "from")), Get(src, "sender")),
                            Get(src, "debitedFrom")))
        date == AsStr(PyOr(PyOr(PyOr(Get(src, "date"), Get(src, "time")),
                                Get(src, "timestamp")), Get(src, "paymentDate")))
        reference == AsStr(PyOr(PyOr(PyOr(PyOr(Get(src, "reference"), Get(src, "ref")),
                                          Get(src, "transactionId")), Get(src, "transactionID")),
                                Get(src, "txId")))
    IN  <<amount_f, payer, date, reference>>

(***************************************************************************)
(* main.py: heuristics and confidence.                                     *)
(***************************************************************************)
PuppeteerNeedles ==
    {W_puppeteer, W_could_not_find_chrome, W_chrome_ver, W_browsers_install,
     W_pptr_dev, W_cache_path}

AutomationNeedles ==
    {W_puppeteer, W_could_not_find_chrome, W_chromium, W_browser_install, W_pptr_dev}

RECURSIVE ContainsPuppeteerValue(_, _)
\* _contains_puppeteer_error(value, depth).  The key names of the model's
\* dicts contain none of the needles, so only the values are searched.
ContainsPuppeteerValue(value, depth) ==
    IF depth > 4 THEN FALSE
    ELSE CASE value.t = "str" ->
                  \E n \in PuppeteerNeedles : Contains(Lower(value.v), n)
           [] value.t = "dict" ->
                  \E k \in DOMAIN value.v : ContainsPuppeteerValue(value.v[k], depth + 1)
           [] OTHER -> FALSE

_contains_puppeteer_error(raw) == ContainsPuppeteerValue(raw, 0)

RECURSIVE JsonTextHas(_, _)
\* Whether json.dumps(value).lower() contains the needle.  No needle holds a
\* quote, so a match lies inside the rendering of one string; the model's
\* strings hold no character that json.dumps escapes, and its key names,
\* numbers, true/false/null hold no needle.
JsonTextHas(value, needle) ==
    CASE value.t = "str" -> Contains(Lower(value.v), needle)
      [] value.t = "dict" -> \E k \in DOMAIN value.v : JsonTextHas(value.v[k], needle)
      [] OTHER -> FALSE

_looks_like_automation_error(raw) == \E n \in AutomationNeedles : JsonTextHas(raw, n)

HasNotFoundPhrase(x) ==
    IsStr(x) /\ (Contains(Lower(x.v), W_not_found) \/ Contains(Lower(x.v), W_receipt_not_found))

_looks_like_not_found(raw) ==
    CASE raw.t = "none" -> FALSE
      [] raw.t = "str" -> HasNotFoundPhrase(raw)
      [] raw.t = "dict" ->
            LET msg == PyOr(Get(raw.v, "message"), Get(raw.v, "detail"))
                data == Get(raw.v, "data")
            IN  \/ HasNotFoundPhrase(msg)
                \/ /\ IsDict(data)
                   /\ \E k \in {"message", "detail", "error", "reason"} :
                          HasNotFoundPhrase(Get(data.v, k))
      [] OTHER -> FALSE

\* The `v is not None and (not isinstance(v, str) or v.strip() != "")` filter.
IsFilled(v) == v.t # "none" /\ (~IsStr(v) \/ Strip(v.v) # <<>>)

\* The confidence computed from the fields alone, whatever the status.
_compute_confidence_AnyStatus(status, amount, payer, date) ==
    LET filled == Cardinality({i \in 1..3 : IsFilled(<<amount, payer, date>>[i])})
    IN  IF filled >= 3 THEN "high"
        ELSE IF filled >= 1 THEN "medium"
        ELSE "low"

_compute_confidence(status, amount, payer, date) ==
    IF status # "SUCCESS" THEN "low"
    ELSE LET filled == Cardinality({i \in 1..3 : IsFilled(<<amount, payer, date>>[i])})
         IN  IF filled >= 3 THEN "high"
             ELSE IF filled >= 1 THEN "medium"
             ELSE "low"

(***************************************************************************)
(* schemas.py and settings.py                                              *)
(***************************************************************************)
Provider == {"telebirr", "cbe", "dashen", "abyssinia", "cbebirr"}

\* Provider.value as a string.
ProviderValue ==
    [telebirr |-> <<"t","e","l","e","b","i","r","r">>,
     cbe |-> <<"c","b","e">>,
     dashen |-> <<"d","a","s","h","e","n">>,
     abyssinia |-> <<"a","b","y","s","s","i","n","i","a">>,
     cbebirr |-> <<"c","b","e","b","i","r","r">>]

\* The providers that have a local rate limiter (main.local_rate_limiters)
\* and a local extractor with its own circuit breaker.
LocalProviders == {"cbe", "telebirr"}

\* window_seconds of the local rate limiters, in model time units of 30 s.
WindowSeconds == 2

\* The size of the bucket map above which a hit compacts it: 10_000 in the
\* source, 3 here, a size the bucket maps of the model exceed.
CompactionHighWater == 3

\* A Settings object: the flags vary, the numbers are small configured values.
MakeSettings(key, cbeOn, teleOn, rlOn, cbOn) ==
    [verify_api_key_set |-> key,
     cache_ttl_seconds |-> 2,
     local_cbe_receipt_enabled |-> cbeOn,
     local_telebirr_receipt_enabled |-> teleOn,
     local_rate_limit_enabled |-> rlOn,
     local_rate_limit_cbe_per_minute |-> 2,
     local_rate_limit_telebirr_per_minute |-> 1,
     local_retry_attempts |-> 2,
     local_retry_base_delay_ms |-> 200,
     local_retry_max_delay_ms |-> 1500,
     local_circuit_breaker_enabled |-> cbOn,
     local_circuit_failure_threshold |-> 2,
     local_circuit_reset_seconds |-> 2]

Max(a, b) == IF a >= b THEN a ELSE b

Min(a, b) == IF a <= b THEN a ELSE b

EmptyMap == [k \in {} |-> None]

(***************************************************************************)
(* cache.py                                                                *)
(***************************************************************************)
\* TtlCache.get with an entry still served at its expiry time.
TtlCache_get_ServedAtExpiry(st, key, t) ==
    IF key \notin DOMAIN st THEN [value |-> None, store |-> st]
    ELSE IF t > st[key].expires_at
         THEN [value |-> None, store |-> [k \in DOMAIN st \ {key} |-> st[k]]]
         ELSE [value |-> st[key].value, store |-> st]

\* TtlCache.get at time t: the value returned and the store left behind.
TtlCache_get(st, key, t) ==
    IF key \notin DOMAIN st THEN [value |-> None, store |-> st]
    ELSE IF t >= st[key].expires_at
         THEN [value |-> None, store |-> [k \in DOMAIN st \ {key} |-> st[k]]]
         ELSE [value |-> st[key].value, store |-> st]

\* TtlCache.set with the expiry computed without the TTL.
TtlCache_set_NoTtl(st, key, value, t, ttl) ==
    [k \in DOMAIN st \cup {key} |->
        IF k = key THEN [value |-> value, expires_at |-> t] ELSE st[k]]

\* TtlCache.set at time t.
TtlCache_set(st, key, value, t, ttl) ==
    [k \in DOMAIN st \cup {key} |->
        IF k = key THEN [value |-> value, expires_at |-> t + ttl] ELSE st[k]]

(***************************************************************************)
(* rate_limit.py.  A bucket key f"{identity}:{window}" is the pair         *)
(* <<identity, window>>; k.endswith(f":{window}") tests its second part.   *)
(***************************************************************************)
\* hit with the comparison against the limit off by one.
FixedWindowRateLimiter_hit_OffByOne(bk, identity, t, limit) ==
    LET lim == Max(1, limit)
        window == t \div WindowSeconds
        key == <<identity, window>>
        count == (IF key \in DOMAIN bk THEN bk[key] ELSE 0) + 1
    IN  [buckets |-> [k \in DOMAIN bk \cup {key} |-> IF k = key THEN count ELSE bk[k]],
         allowed |-> count <= lim + 1,
         limit |-> lim,
         remaining |-> Max(0, lim - count),
         reset_epoch_seconds |-> (window + 1) * WindowSeconds]

\* hit with remaining counted from one hit fewer.
FixedWindowRateLimiter_hit_RemainingOffByOne(bk, identity, t, limit) ==
    LET lim == Max(1, limit)
        window == t \div WindowSeconds
        key == <<identity, window>>
        count == (IF key \in DOMAIN bk THEN bk[key] ELSE 0) + 1
    IN  [buckets |-> [k \in DOMAIN bk \cup {key} |-> IF k = key THEN count ELSE bk[k]],
         allowed |-> count <= lim,
         limit |-> lim,
         remaining |-> Max(0, lim - count + 1),
         reset_epoch_seconds |-> (window + 1) * WindowSeconds]

\* hit with a compaction that keeps the buckets of the current window only.
FixedWindowRateLimiter_hit_KeepsCurrentOnly(bk, identity, t, limit) ==
    LET lim == Max(1, limit)
        window == t \div WindowSeconds
        key == <<identity, window>>
        count == (IF key \in DOMAIN bk THEN bk[key] ELSE 0) + 1
        bk1 == [k \in DOMAIN bk \cup {key} |-> IF k = key THEN count ELSE bk[k]]
    IN  [buckets |-> IF Cardinality(DOMAIN bk1) > CompactionHighWater
                     THEN [k \in {x \in DOMAIN bk1 : x[2] = window} |-> bk1[k]]
                     ELSE bk1,
         allowed |-> count <= lim,
         limit |-> lim,
         remaining |-> Max(0, lim - count),
         reset_epoch_seconds |-> (window + 1) * WindowSeconds]

FixedWindowRateLimiter_hit(bk, identity, t, limit) ==
    LET lim == Max(1, limit)
        window == t \div WindowSeconds
        reset == (window + 1) * WindowSeconds
        key == <<identity, window>>
        count == (IF key \in DOMAIN bk THEN bk[key] ELSE 0) + 1
        bk1 == [k \in DOMAIN bk \cup {key} |-> IF k = key THEN count ELSE bk[k]]
        bk2 == IF Cardinality(DOMAIN bk1) > CompactionHighWater
               THEN [k \in {x \in DOMAIN bk1 : x[2] = window \/ x[2] = window - 1} |-> bk1[k]]
               ELSE bk1
    IN  [buckets |-> bk2,
         allowed |-> count <= lim,
         limit |-> lim,
         remaining |-> Max(0, lim - count),
         reset_epoch_seconds |-> reset]

(***************************************************************************)
(* resilience.py: CircuitBreaker.                                          *)
(***************************************************************************)
NewBreaker == [consecutive_failures |-> 0, open_until |-> 0]

\* before_call that never raises.
CircuitBreaker_before_call_Never(b, t, cfg) == FALSE

\* Whether before_call raises CircuitOpen at time t.
CircuitBreaker_before_call(b, t, cfg) ==
    cfg.local_circuit_breaker_enabled /\ t < b.open_until

\* record_success that resets the counter and leaves the circuit open.
CircuitBreaker_record_success_KeepsOpen(b) ==
    [consecutive_failures |-> 0, open_until |-> b.open_until]

CircuitBreaker_record_success(b) == [consecutive_failures |-> 0, open_until |-> 0]

\* record_failure without the test of the enabled flag.
CircuitBreaker_record_failure_AlwaysOn(b, t, cfg) ==
    [consecutive_failures |-> b.consecutive_failures + 1,
     open_until |-> IF b.consecutive_failures + 1
                          >= Max(1, cfg.local_circuit_failure_threshold)
                    THEN t + Max(1, cfg.local_circuit_reset_seconds)
                    ELSE b.open_until]

\* record_failure that opens the circuit one failure before the threshold.
CircuitBreaker_record_failure_OpensEarly(b, t, cfg) ==
    IF ~cfg.local_circuit_breaker_enabled THEN b
    ELSE [consecutive_failures |-> b.consecutive_failures + 1,
          open_until |-> IF b.consecutive_failures + 2
                               >= Max(1, cfg.local_circuit_failure_threshold)
                         THEN t + Max(1, cfg.local_circuit_reset_seconds)
                         ELSE b.open_until]

\* record_failure that starts the count again once the reset window of an
\* open circuit has elapsed.
CircuitBreaker_record_failure_ResetsAfterWindow(b, t, cfg) ==
    IF ~cfg.local_circuit_breaker_enabled THEN b
    ELSE IF b.open_until # 0 /\ t >= b.open_until
    THEN [consecutive_failures |-> 1,
          open_until |-> IF 1 >= Max(1, cfg.local_circuit_failure_threshold)
                         THEN t + Max(1, cfg.local_circuit_reset_seconds)
                         ELSE 0]
    ELSE [consecutive_failures |-> b.consecutive_failures + 1,
          open_until |-> IF b.consecutive_failures + 1
                               >= Max(1, cfg.local_circuit_failure_threshold)
                         THEN t + Max(1, cfg.local_circuit_reset_seconds)
                         ELSE b.open_until]

CircuitBreaker_record_failure(b, t, cfg) ==
    IF ~cfg.local_circuit_breaker_enabled THEN b
    ELSE LET n == b.consecutive_failures + 1
         IN  [consecutive_failures |-> n,
              open_until |-> IF n >= Max(1, cfg.local_circuit_failure_threshold)
                             THEN t + Max(1, cfg.local_circuit_reset_seconds)
                             ELSE b.open_until]

\* One attempt more than configured.
RetryAttempts_OneMore(cfg) == Max(1, cfg.local_retry_attempts) + 1

\* One attempt fewer than configured.
RetryAttempts_OneLess(cfg) == Max(1, cfg.local_retry_attempts - 1)

\* retry_async: attempts = max(1, int(config.attempts)).
RetryAttempts(cfg) == Max(1, cfg.local_retry_attempts)

\* retry_async: the largest delay before the attempt after `attempt`, in ms;
\* the delay slept is this times random.random(), so 0 is always possible.
RetryMaxDelay(cfg, attempt) ==
    Min(Max(0, cfg.local_retry_max_delay_ms),
        Max(0, cfg.local_retry_base_delay_ms) * (2 ^ (attempt - 1)))

(***************************************************************************)
(* The state.                                                              *)
(***************************************************************************)
VARIABLES
    now,             \* the clock read by time.time() and time.monotonic()
    settings,        \* settings.settings
    world,           \* what the upstream API and the receipt sites can answer
    store,           \* main.cache._store: cache key -> CacheItem
    origin,          \* history: cache key -> the request whose record it holds
    buckets,         \* main.local_rate_limiters[p]._buckets
    breaker,         \* the _breaker of each local extractor
    pc,              \* where the request handler is suspended
    req,             \* the VerifyReferenceRequest being handled
    ip,              \* get_client_ip(request)
    started,         \* history: the time at which the request arrived
    attempt,         \* retry_async: the attempt in progress
    upstream_raw,    \* api_verify_reference.upstream_raw
    upstream_error,  \* api_verify_reference.upstream_error
    local_raw,       \* api_verify_reference.local_raw
    raw_ref,         \* which object api_verify_reference.raw refers to
    decision,        \* the RateLimitDecision of the local limiter for this request
    result,          \* what the handler answered
    events,          \* history: what the handler did for this request
    upstream_calls,  \* history: upstream calls issued for this request
    local_fetches,   \* history: local fetches issued for this request
    served,          \* history: the number of requests received
    handlers,        \* the handlers in progress when requests are handled concurrently
    history          \* history of the operations made on a class used on its own

vars ==
    <<now, settings, world, store, origin, buckets, breaker, pc, req, ip, started, attempt,
      upstream_raw, upstream_error, local_raw, raw_ref, decision, result, events,
      upstream_calls, local_fetches, served, handlers, history>>

NoError == [kind |-> "none"]

NoResult == [kind |-> "none"]

\* No hit of the local rate limiter was made.
NoDecision == [allowed |-> TRUE, limit |-> 0, remaining |-> 0, reset_epoch_seconds |-> 0]

NoRequest == [provider |-> "", reference |-> <<>>, suffix |-> None, phone |-> None]

\* The state a handler step works on.
Cur ==
    [store |-> store, origin |-> origin, buckets |-> buckets, breaker |-> breaker,
     pc |-> pc, req |-> req, ip |-> ip, attempt |-> attempt,
     upstream_raw |-> upstream_raw, upstream_error |-> upstream_error,
     local_raw |-> local_raw, raw_ref |-> raw_ref, decision |-> decision,
     result |-> result,
     events |-> events, upstream_calls |-> upstream_calls,
     local_fetches |-> local_fetches]

\* The handler step leaves the state S.
Commit(S) ==
    /\ store' = S.store
    /\ origin' = S.origin
    /\ buckets' = S.buckets
    /\ breaker' = S.breaker
    /\ pc' = S.pc
    /\ req' = S.req
    /\ ip' = S.ip
    /\ attempt' = S.attempt
    /\ upstream_raw' = S.upstream_raw
    /\ upstream_error' = S.upstream_error
    /\ local_raw' = S.local_raw
    /\ raw_ref' = S.raw_ref
    /\ decision' = S.decision
    /\ result' = S.result
    /\ events' = S.events
    /\ upstream_calls' = S.upstream_calls
    /\ local_fetches' = S.local_fetches

(***************************************************************************)
(* main.py: api_verify_reference.                                          *)
(***************************************************************************)
Colon == <<":">>

\* f"ref:{req.provider.value}:{req.reference}:{req.suffix or ''}:{req.phone or ''}"
cache_key(r) ==
    <<"r","e","f">> \o Colon \o ProviderValue[r.provider] \o Colon \o r.reference
        \o Colon \o PyOr(r.suffix, PyStr(<<>>)).v \o Colon \o PyOr(r.phone, PyStr(<<>>)).v

\* An exception that no handler catches leaves api_verify_reference.
Raise(S, exc) ==
    [S EXCEPT !.pc = "done", !.result = [kind |-> "unhandled", exc |-> exc]]

\* raise HTTPException(status_code=code) with the error kept in the cache.
RaiseHTTPException_CachesError(S, code) ==
    [S EXCEPT !.pc = "done", !.result = [kind |-> "http_error", status_code |-> code],
              !.store = TtlCache_set(S.store, cache_key(S.req),
                                     [kind |-> "http_error", status_code |-> code],
                                     now, settings.cache_ttl_seconds)]

\* raise HTTPException(status_code=code)
RaiseHTTPException(S, code) ==
    [S EXCEPT !.pc = "done", !.result = [kind |-> "http_error", status_code |-> code]]

\* The choice with the upstream result preferred to a successful local one.
ChooseRaw_UpstreamFirst(l_raw, u_raw) ==
    IF u_raw # None THEN "upstream_raw"
    ELSE IF l_raw # None THEN "local_raw"
    ELSE "none"

\* Lines 262-269: which of the two results raw refers to.
ChooseRaw(l_raw, u_raw) ==
    IF l_raw # None /\ normalize_status(l_raw.v) = "SUCCESS" THEN "local_raw"
    ELSE IF u_raw # None THEN "upstream_raw"
    ELSE IF l_raw # None THEN "local_raw"
    ELSE "none"

\* Lines 271-276: the source label; `raw is local_raw` compares references.
SourceOf(ref, l_raw, u_raw) ==
    IF ref # "none"
    THEN IF l_raw # None /\ ref = "local_raw" THEN "local"
         ELSE IF u_raw # None /\ ref = "upstream_raw" THEN "upstream"
         ELSE "none"
    ELSE "none"

\* Lines 278-294: the error raised when there is no result at all.
UpstreamErrorStatus(err) ==
    IF err.kind = "UpstreamTimeout" THEN 504
    ELSE IF err.kind = "UpstreamConnectionError" THEN 502
    ELSE IF err.kind = "UpstreamError" THEN 502
    ELSE IF err.kind # "none" THEN 400
    ELSE 502

\* Lines 308-319: the NormalizedVerification of raw with status and fields f.
MakeOut(r, raw, source, status, f) ==
    [status |-> status,
     provider |-> ProviderValue[r.provider],
     reference |-> PyOr(f[4], PyStr(r.reference)),
     amount |-> f[1],
     payer |-> f[2],
     date |-> f[3],
     source |-> source,
     confidence |-> _compute_confidence(status, f[1], f[2], f[3]),
     raw |-> raw]

\* Lines 304-319: the NormalizedVerification built from raw.
BuildOut(r, raw, source) ==
    MakeOut(r, raw, source, normalize_status(raw.v), normalize_fields(raw.v))

\* Lines 262-269: the object raw refers to.
RawOf(S, ref) ==
    IF ref = "local_raw" THEN S.local_raw
    ELSE IF ref = "upstream_raw" THEN S.upstream_raw
    ELSE None

\* Lines 319-322: answer with the record out and cache it under key.
AnswerRecord(S, key, out) ==
    [S EXCEPT !.pc = "done",
              !.result = [kind |-> "record", out |-> out],
              !.store = TtlCache_set(S.store, key, out, now, settings.cache_ttl_seconds),
              !.origin = [k \in DOMAIN S.origin \cup {key} |->
                              IF k = key THEN S.req ELSE S.origin[k]],
              !.events = @ \cup {"cache_set"}]

\* The answer without the test of the automation-failure heuristic.
AnswerFrom_NoAutomationCheck(S, raw, source) ==
    IF raw = None THEN RaiseHTTPException(S, UpstreamErrorStatus(S.upstream_error))
    ELSE AnswerRecord(S, cache_key(S.req), BuildOut(S.req, raw, source))

\* Lines 271-322: answer from the chosen raw.
AnswerFrom(S, raw, source) ==
    IF raw = None THEN RaiseHTTPException(S, UpstreamErrorStatus(S.upstream_error))
    ELSE IF _looks_like_automation_error(raw) THEN RaiseHTTPException(S, 503)
    ELSE AnswerRecord(S, cache_key(S.req), BuildOut(S.req, raw, source))

\* Lines 262-322 once raw is chosen.
AnswerWith(S, ref) ==
    AnswerFrom([S EXCEPT !.raw_ref = ref], RawOf(S, ref),
               SourceOf(ref, S.local_raw, S.upstream_raw))

\* Lines 262-322: choose the result, answer, and cache the answer.
ChooseResult(S) == AnswerWith(S, ChooseRaw(S.local_raw, S.upstream_raw))

\* The limit of main.local_rate_limiters[p].
LocalLimit(cfg, p) ==
    IF p = "cbe" THEN cfg.local_rate_limit_cbe_per_minute
    ELSE cfg.local_rate_limit_telebirr_per_minute

\* Whether provider p has a local extractor that the configuration enables.
LocalEnabled(cfg, p) ==
    \/ p = "cbe" /\ cfg.local_cbe_receipt_enabled
    \/ p = "telebirr" /\ cfg.local_telebirr_receipt_enabled

\* verify_cbe_receipt_pdf / verify_telebirr_receipt_html up to the first
\* fetch: the reference check, then _breaker.before_call().
StartExtractor(S) ==
    LET p == S.req.provider
        ref == Strip(S.req.reference)
        S1 == [S EXCEPT !.events = @ \cup {"extractor"}]
    IN  IF ~IsAlnum(ref) THEN Raise(S1, "ValueError")
        ELSE IF CircuitBreaker_before_call(S.breaker[p], now, settings)
        THEN Raise([S1 EXCEPT !.events = @ \cup {"circuit_open"}], "CircuitOpen")
        ELSE [S1 EXCEPT !.pc = "fetch", !.attempt = 1,
                        !.local_fetches = @ + 1,
                        !.events = @ \cup {"fetch"}]

\* The RateLimitDecision that hit returns.
DecisionOf(d) ==
    [allowed |-> d.allowed, limit |-> d.limit, remaining |-> d.remaining,
     reset_epoch_seconds |-> d.reset_epoch_seconds]

\* The state after a hit whose count is not written to the bucket map.
AfterHit_LostUpdate(S, p, d) ==
    [S EXCEPT !.decision = DecisionOf(d), !.events = @ \cup {"rl_hit"}]

\* Lines 199-211: the state after the hit d of the local rate limiter.
AfterHit(S, p, d) ==
    [S EXCEPT !.buckets[p] = d.buckets, !.decision = DecisionOf(d),
              !.events = @ \cup {"rl_hit"}]

\* Lines 199-222: _try_local after the hit d of the local rate limiter.
AfterLocalHit(S, p, limited, d) ==
    IF limited /\ ~d.allowed
    THEN RaiseHTTPException([AfterHit(S, p, d) EXCEPT !.events = @ \cup {"rl_denied"}], 429)
    ELSE IF LocalEnabled(settings, p)
    THEN StartExtractor(IF limited THEN AfterHit(S, p, d) ELSE S)
    ELSE ChooseResult(IF limited
                      THEN [AfterHit(S, p, d) EXCEPT !.local_raw = None]
                      ELSE [S EXCEPT !.local_raw = None])

\* Lines 198-223: _try_local, up to the first fetch of the extractor.
TryLocal(S) ==
    AfterLocalHit(S, S.req.provider,
                  settings.local_rate_limit_enabled /\ S.req.provider \in LocalProviders,
                  FixedWindowRateLimiter_hit(S.buckets[S.req.provider],
                                             <<S.ip, S.req.provider, "local">>, now,
                                             LocalLimit(settings, S.req.provider)))

\* The decision with a failed upstream call falling back only on a 404 or a
\* not-found body.
ShouldFallback_OnlyNotFound(u_raw, u_err) ==
    LET first ==
            IF u_raw = None THEN FALSE
            ELSE IF _contains_puppeteer_error(u_raw) \/ _looks_like_automation_error(u_raw)
            THEN TRUE
            ELSE normalize_status(u_raw.v) = "FAILED" /\ _looks_like_not_found(u_raw)
    IN  \/ first
        \/ /\ u_err.kind = "UpstreamError"
           /\ (u_err.status_code = 404 \/ _looks_like_not_found(u_err.body))

\* The decision with every upstream outcome falling back.
ShouldFallback_Always(u_raw, u_err) == TRUE

\* The decision with a PENDING not-found result falling back too.
ShouldFallback_PendingToo(u_raw, u_err) ==
    \/ u_raw = None
    \/ _contains_puppeteer_error(u_raw)
    \/ _looks_like_automation_error(u_raw)
    \/ normalize_status(u_raw.v) \in {"FAILED", "PENDING"} /\ _looks_like_not_found(u_raw)

\* Lines 239-256: the fallback decision.
ShouldFallback(u_raw, u_err) ==
    LET first ==
            IF u_raw = None THEN TRUE
            ELSE IF _contains_puppeteer_error(u_raw) \/ _looks_like_automation_error(u_raw)
            THEN TRUE
            ELSE normalize_status(u_raw.v) = "FAILED" /\ _looks_like_not_found(u_raw)
    IN  \/ first
        \/ /\ u_err.kind = "UpstreamError"
           /\ (u_err.status_code = 404 \/ _looks_like_not_found(u_err.body))

\* Lines 239-322, from the outcome of the upstream call to the first fetch.
AfterUpstream(S) ==
    IF ShouldFallback(S.upstream_raw, S.upstream_error)
    THEN TryLocal([S EXCEPT !.events = @ \cup {"fallback"}])
    ELSE ChooseResult(S)

(***************************************************************************)
(* cbe_receipt.py and telebirr_receipt.py, after the fetch.  The text of   *)
(* the document and the fields that the regular expressions of the         *)
(* extractor find in it come with the response.                            *)
(***************************************************************************)
W_pdf == <<"p","d","f">>
W_json == <<"j","s","o","n">>
W_html == <<"h","t","m","l">>
W_text == <<"t","e","x","t">>
W_completed == <<"c","o","m","p","l","e","t","e","d">>
W_cbe_receipt_pdf == <<"c","b","e","_","r","e","c","e","i","p","t","_","p","d","f">>
W_telebirr_receipt == <<"t","e","l","e","b","i","r","r","_","r","e","c","e","i","p","t">>
W_telebirr_receipt_html == W_telebirr_receipt \o <<"_","h","t","m","l">>

\* settings.cbe_receipt_base_url and settings.telebirr_receipt_base_url,
\* after rstrip("/"), shortened.
CbeReceiptBaseUrl == <<"h","t","t","p","s",":","/","/","c","b","e">>

TelebirrReceiptBaseUrl == <<"h","t","t","p","s",":","/","/","t","b">>

\* The dict _try_local returns when the extractor signals not-found.
LocalNotFoundRaw ==
    PyDict([success |-> PyBool(FALSE), message |-> PyStr(M_Receipt_not_found)])

\* The not-found signal of the extractor left uncaught by _try_local.
ReceiptNotFound_Uncaught(S) ==
    Raise([S EXCEPT !.events = @ \cup {"local_not_found"}], "ReceiptNotFound")

\* The extractor raised CbeReceiptNotFound / TelebirrReceiptNotFound.
ReceiptNotFound(S) ==
    ChooseResult([S EXCEPT !.local_raw = LocalNotFoundRaw,
                           !.events = @ \cup {"local_not_found"}])

\* The checks of the status code, shared by both extractors; "" lets the
\* response through.
StatusCheck(status_code) ==
    IF status_code = 404 THEN "NotFound"
    ELSE IF status_code \in {429, 500, 502, 503, 504} THEN "RuntimeError"
    ELSE IF status_code >= 400 THEN "RuntimeError"
    ELSE ""

\* `status.lower() not in ("completed", "success", "successful")`
IsCompleted(s) == Lower(s) \in {W_completed, W_success, W_successful}

(***************************************************************************)
(* cbe_receipt.py: _parse_amount.  The regular expressions are matched     *)
(* character by character; in each of them the text a match covers is      *)
(* determined by where the match starts.                                   *)
(***************************************************************************)
W_etb == <<"e","t","b">>

\* The words of the two preferred patterns, lowercased (re.IGNORECASE).
TransferredAmountLabel == <<<<"t","r","a","n","s","f","e","r","r","e","d">>, <<"a","m","o","u","n","t">>>>

TotalDebitedLabel ==
    <<<<"t","o","t","a","l">>,
      <<"a","m","o","u","n","t">>,
      <<"d","e","b","i","t","e","d">>,
      <<"f","r","o","m">>,
      <<"c","u","s","t","o","m","e","r","s">>,
      <<"a","c","c","o","u","n","t">>>>

\* text[i], or "" outside the text.
CharAt(text, i) == IF i >= 1 /\ i <= Len(text) THEN text[i] ELSE ""

IsDigit(c) == \E i \in 1..10 : DigitChars[i] = c

DigitValue(c) == (CHOOSE i \in 1..10 : DigitChars[i] = c) - 1

\* \w
IsWordChar(c) == IsAlnumChar(c) \/ c = "_"

\* Where \s* started at i ends.
SkipSpaces(text, i) ==
    CHOOSE j \in i..(Len(text) + 1) :
        /\ \A k \in i..(j - 1) : IsSpace(text[k])
        /\ ~IsSpace(CharAt(text, j))

\* Where [0-9,]* started at i ends.
SkipAmountChars(text, i) ==
    CHOOSE j \in i..(Len(text) + 1) :
        /\ \A k \in i..(j - 1) : IsDigit(text[k]) \/ text[k] = ","
        /\ ~(IsDigit(CharAt(text, j)) \/ CharAt(text, j) = ",")

\* Where (?:\.[0-9]{1,2})? started at e ends.
DecimalsEnd(text, e) ==
    IF CharAt(text, e) = "." /\ IsDigit(CharAt(text, e + 1))
    THEN IF IsDigit(CharAt(text, e + 2)) THEN e + 3 ELSE e + 2
    ELSE e

\* Where the group ([0-9][0-9,]*(?:\.[0-9]{1,2})?) started at i ends; 0 when
\* it does not match.
AmountGroupEnd(text, i) ==
    IF IsDigit(CharAt(text, i)) THEN DecimalsEnd(text, SkipAmountChars(text, i + 1)) ELSE 0

\* Where ETB\b at j ends; 0 when it does not match.
EtbAt(text, j) ==
    IF /\ j + 2 <= Len(text)
       /\ Lower(SubSeq(text, j, j + 2)) = W_etb
       /\ ~IsWordChar(CharAt(text, j + 3))
    THEN j + 3
    ELSE 0

\* Where ([0-9][0-9,]*(?:\.[0-9]{1,2})?)\s*ETB\b started at i ends; 0 when it
\* does not match.
AmountEtbEnd(text, i) ==
    IF AmountGroupEnd(text, i) = 0 THEN 0
    ELSE EtbAt(text, SkipSpaces(text, AmountGroupEnd(text, i)))

RECURSIVE LabelEnd(_, _, _)
\* Where word\s+word\s+...word\s+ started at i ends; 0 when it does not match.
LabelEnd(text, i, words) ==
    IF words = <<>> THEN i
    ELSE IF /\ i + Len(Head(words)) <= Len(text)
            /\ Lower(SubSeq(text, i, i + Len(Head(words)) - 1)) = Head(words)
            /\ IsSpace(text[i + Len(Head(words))])
         THEN LabelEnd(text, SkipSpaces(text, i + Len(Head(words))), Tail(words))
         ELSE 0

\* The positions where a preferred pattern with the label words matches.
PreferredStarts(text, words) ==
    {p \in 1..Len(text) :
        /\ LabelEnd(text, p, words) # 0
        /\ AmountEtbEnd(text, LabelEnd(text, p, words)) # 0}

Least(S) == CHOOSE x \in S : \A y \in S : x <= y

\* m.group(1) of the match whose group starts at g.
GroupAt(text, g) == SubSeq(text, g, AmountGroupEnd(text, g) - 1)

\* m.group(1) of re.search for a preferred pattern that matches.
PreferredGroup(text, words) ==
    GroupAt(text, LabelEnd(text, Least(PreferredStarts(text, words)), words))

RECURSIVE WholeValue(_)
\* int() of a string of digits and commas, the commas removed.
WholeValue(s) ==
    IF s = <<>> THEN 0
    ELSE IF s[Len(s)] = "," THEN WholeValue(SubSeq(s, 1, Len(s) - 1))
    ELSE WholeValue(SubSeq(s, 1, Len(s) - 1)) * 10 + DigitValue(s[Len(s)])

\* float(group.replace(",", "")), in hundredths.
FloatOfGroup(group) ==
    IF \E i \in 1..Len(group) : group[i] = "."
    THEN LET dot == CHOOSE i \in 1..Len(group) : group[i] = "."
         IN  WholeValue(SubSeq(group, 1, dot - 1)) * 100
                 + DigitValue(group[dot + 1]) * 10
                 + (IF dot + 2 <= Len(group) THEN DigitValue(group[dot + 2]) ELSE 0)
    ELSE WholeValue(group) * 100

\* The positions where the fallback pattern matches.
EtbStarts(text) == {p \in 1..Len(text) : AmountEtbEnd(text, p) # 0}

RECURSIVE LastMatchFrom(_, _, _)
\* re.findall scans from left to right over matches that do not overlap:
\* the start of the last match at or after p, or last when there is none.
LastMatchFrom(text, p, last) ==
    IF \A q \in EtbStarts(text) : q < p THEN last
    ELSE LastMatchFrom(text,
                       AmountEtbEnd(text, Least({q \in EtbStarts(text) : q >= p})),
                       Least({q \in EtbStarts(text) : q >= p}))

\* The first numeric token of the text, labeled or not.
_parse_amount_FirstNumber(text) ==
    IF \A p \in 1..Len(text) : ~IsDigit(text[p]) THEN None
    ELSE PyFloat(FloatOfGroup(GroupAt(text, Least({p \in 1..Len(text) : IsDigit(text[p])}))))

\* _parse_amount, lines 30-53.
_parse_amount(text) ==
    IF PreferredStarts(text, TransferredAmountLabel) # {}
    THEN PyFloat(FloatOfGroup(PreferredGroup(text, TransferredAmountLabel)))
    ELSE IF PreferredStarts(text, TotalDebitedLabel) # {}
    THEN PyFloat(FloatOfGroup(PreferredGroup(text, TotalDebitedLabel)))
    ELSE IF LastMatchFrom(text, 1, 0) = 0 THEN None
    ELSE PyFloat(FloatOfGroup(GroupAt(text, LastMatchFrom(text, 1, 0))))


\* _parse_birr_value for the numeric amounts of the model's inputs.
_parse_birr_value(value) == IF value.t = "num" THEN value ELSE None

\* verify_cbe_receipt_pdf, lines 166-202.
CbeAfterFetch(S, resp) ==
    LET ref == Strip(S.req.reference)
        url == CbeReceiptBaseUrl \o <<"/","?","i","d","=">> \o ref
        doc == resp.doc
        tx == PyOr(doc.tx, PyStr(ref))
        data == [reference |-> PyStr(ref),
                 transactionId |-> tx,
                 payerName |-> doc.payer,
                 creditedPartyName |-> doc.payee,
                 paymentDate |-> doc.date,
                 amount |-> doc.amount,
                 source |-> PyStr(W_cbe_receipt_pdf),
                 receiptUrl |-> PyStr(url)]
        out == PyDict([success |-> PyBool(TRUE), data |-> PyDict(data),
                       rawText |-> PyStr(doc.text)])
    IN  IF StatusCheck(resp.status_code) = "NotFound" THEN ReceiptNotFound(S)
        ELSE IF StatusCheck(resp.status_code) # "" THEN Raise(S, "RuntimeError")
        ELSE IF ~Contains(Lower(resp.ctype), W_pdf) THEN ReceiptNotFound(S)
        ELSE IF doc.text = <<>> THEN Raise(S, "RuntimeError")
        ELSE ChooseResult([S EXCEPT !.local_raw = out])

\* verify_telebirr_receipt_html, lines 175-283.
TelebirrAfterFetch(S, resp) ==
    LET ref == Strip(S.req.reference)
        url == TelebirrReceiptBaseUrl \o <<"/">> \o ref
        ctype == Lower(resp.ctype)
        doc == resp.doc
        payload == doc.payload
        jsonMode == IsDict(payload) /\ IsDict(Get(payload.v, "data"))
        data_in == payload.v["data"].v
        jstatus == Get(data_in, "transactionStatus")
        receipt_no == Get(data_in, "receiptNo")
        jamount == PyOr(_parse_birr_value(Get(data_in, "totalPaidAmount")),
                        _parse_birr_value(Get(data_in, "settledAmount")))
        jsuccess0 == IF "success" \in DOMAIN payload.v
                     THEN Truthy(payload.v["success"]) ELSE TRUE
        jsuccess == IF IsStr(jstatus) /\ ~IsCompleted(jstatus.v) THEN FALSE ELSE jsuccess0
        out_data == [reference |-> PyStr(ref),
                     transactionId |-> PyOr(receipt_no, PyStr(ref)),
                     payerName |-> Get(data_in, "payerName"),
                     payerTelebirrNo |-> Get(data_in, "payerTelebirrNo"),
                     creditedPartyName |-> Get(data_in, "creditedPartyName"),
                     creditedPartyAccountNo |-> Get(data_in, "creditedPartyAccountNo"),
                     transactionStatus |-> jstatus,
                     receiptNo |-> receipt_no,
                     paymentDate |-> Get(data_in, "paymentDate"),
                     settledAmount |-> Get(data_in, "settledAmount"),
                     serviceFee |-> Get(data_in, "serviceFee"),
                     serviceFeeVAT |-> Get(data_in, "serviceFeeVAT"),
                     totalPaidAmount |-> Get(data_in, "totalPaidAmount"),
                     bankName |-> Get(data_in, "bankName"),
                     amount |-> jamount,
                     source |-> PyStr(W_telebirr_receipt),
                     receiptUrl |-> PyStr(url)]
        jout == PyDict([success |-> PyBool(jsuccess), data |-> PyDict(out_data)])
        h == doc.html
        invoice_no == PyOr(h.invoice_no, PyStr(ref))
        hamount == IF h.total_paid # None THEN h.total_paid ELSE h.settled_amount
        hsuccess == ~(Truthy(h.status) /\ ~IsCompleted(h.status.v))
        hdata == [reference |-> PyStr(ref),
                  invoiceNo |-> invoice_no,
                  transactionId |-> invoice_no,
                  transactionStatus |-> h.status,
                  payerName |-> h.payer_name,
                  payerTelebirrNo |-> h.payer_phone,
                  creditedPartyName |-> h.credited_name,
                  creditedPartyAccountNo |-> h.credited_account,
                  paymentDate |-> h.payment_date,
                  amount |-> hamount,
                  source |-> PyStr(W_telebirr_receipt_html),
                  receiptUrl |-> PyStr(url)]
        hout == PyDict([success |-> PyBool(hsuccess), data |-> PyDict(hdata),
                        rawText |-> PyStr(doc.text)])
    IN  IF StatusCheck(resp.status_code) = "NotFound" THEN ReceiptNotFound(S)
        ELSE IF StatusCheck(resp.status_code) # "" THEN Raise(S, "RuntimeError")
        ELSE IF ~Contains(ctype, W_json) /\ doc.text = <<>> THEN Raise(S, "RuntimeError")
        ELSE IF jsonMode THEN ChooseResult([S EXCEPT !.local_raw = jout])
        ELSE IF ~Contains(ctype, W_html) /\ ~Contains(ctype, W_text) THEN ReceiptNotFound(S)
        ELSE IF doc.text = <<>> THEN Raise(S, "RuntimeError")
        ELSE ChooseResult([S EXCEPT !.local_raw = hout])

\* The status codes both extractors name as transient failures.
TransientStatusCodes == {429, 500, 502, 503, 504}

\* Whether the content type is one the extractor of provider p reads.
CtypeMatches(p, ctype) ==
    IF p = "cbe" THEN Contains(Lower(ctype), W_pdf)
    ELSE \/ Contains(Lower(ctype), W_json)
         \/ Contains(Lower(ctype), W_html)
         \/ Contains(Lower(ctype), W_text)

\* History: what the response that retry_async returned looks like.
ResponseEvents(p, resp) ==
    {"fetch_returned"}
        \cup (IF resp.status_code = 404 THEN {"status_404"} ELSE {})
        \cup (IF resp.status_code \in TransientStatusCodes THEN {"status_transient"} ELSE {})
        \cup (IF resp.status_code < 400 /\ ~CtypeMatches(p, resp.ctype)
              THEN {"ctype_mismatch"} ELSE {})

\* The `else` branch of the try with record_success left out.
AfterFetch_NoRecordSuccess(S, resp) ==
    IF S.req.provider = "cbe"
    THEN CbeAfterFetch([S EXCEPT !.events = @ \cup ResponseEvents("cbe", resp)], resp)
    ELSE TelebirrAfterFetch([S EXCEPT !.events = @ \cup ResponseEvents("telebirr", resp)],
                            resp)

\* The extractor after retry_async returned the response: the `else` branch
\* of the try records a success, then the response is examined.
AfterFetch(S, resp) ==
    IF S.req.provider = "cbe"
    THEN CbeAfterFetch([S EXCEPT !.breaker["cbe"] = CircuitBreaker_record_success(@),
                                 !.events = @ \cup ResponseEvents("cbe", resp)], resp)
    ELSE TelebirrAfterFetch(
             [S EXCEPT !.breaker["telebirr"] = CircuitBreaker_record_success(@),
                       !.events = @ \cup ResponseEvents("telebirr", resp)], resp)

\* retry_async when the fetch raised a retryable exception on the last
\* attempt: the extractor records a failure and re-raises.
FetchExhausted(S) ==
    Raise([S EXCEPT !.breaker[S.req.provider] =
                        CircuitBreaker_record_failure(@, now, settings),
                    !.events = @ \cup {"fetch_exhausted"}],
          "httpx.RequestError")

\* retry_async when the fetch raised an exception that _retry_if rejects: it
\* is re-raised at once; the extractor records a failure and re-raises.
FetchNotRetryable(S) ==
    Raise([S EXCEPT !.breaker[S.req.provider] =
                        CircuitBreaker_record_failure(@, now, settings),
                    !.events = @ \cup {"fetch_not_retryable"}],
          "httpx.InvalidURL")

(***************************************************************************)
(* The inputs: requests, upstream answers and receipt-site answers.        *)
(***************************************************************************)
T_FT1 == <<"F","T","1">>
T_FT1_colon == <<"F","T","1",":">>
T_AB2 == <<"A","B","2">>
T_Pending == <<" ","P","e","n","d","i","n","g"," ">>
T_Could_not_find_Chrome ==
    <<"C","o","u","l","d"," ","n","o","t"," ","f","i","n","d"," ","C","h","r","o","m","e">>
T_Abe == <<"A","b","e">>
T_Bo == <<"B","o">>
T_date == <<"1","/","2">>
T_receipt == <<"P","a","y","e","r"," ","A","b","e">>
T_Chromium_PLC == <<"C","h","r","o","m","i","u","m"," ","P","L","C">>
T_Completed == <<"C","o","m","p","l","e","t","e","d">>
T_Failed == <<"F","a","i","l","e","d">>
T_application_pdf == <<"a","p","p","l","i","c","a","t","i","o","n","/","p","d","f">>
T_application_json == <<"a","p","p","l","i","c","a","t","i","o","n","/","j","s","o","n">>
T_image_png == <<"i","m","a","g","e","/","p","n","g">>

T_text_html == <<"t","e","x","t","/","h","t","m","l">>

MakeRequest(p, reference, suffix, phone) ==
    [provider |-> p, reference |-> reference, suffix |-> suffix, phone |-> phone]

\* The arrivals: a request and the client address it comes from.  The two
\* cbe requests differ and have one cache key.
Arrival_cbe_suffix == <<MakeRequest("cbe", T_FT1, PyStr(Colon), None), "10.0.0.1">>

Arrival_cbe_colon == <<MakeRequest("cbe", T_FT1_colon, None, None), "10.0.0.2">>

Arrival_telebirr == <<MakeRequest("telebirr", T_AB2, None, None), "10.0.0.1">>

Arrival_dashen == <<MakeRequest("dashen", T_FT1, None, PyStr(<<"9">>)), "10.0.0.2">>

Body_status_not_found == PyDict([status |-> PyStr(W_not_found_us)])

Body_message_not_found ==
    PyDict([success |-> PyBool(FALSE), message |-> PyStr(M_Receipt_not_found)])

Body_pending_not_found ==
    PyDict([status |-> PyStr(T_Pending), message |-> PyStr(M_Receipt_not_found)])

Body_success ==
    PyDict([success |-> PyBool(TRUE),
            data |-> PyDict([amount |-> PyNum(1250), payer |-> PyStr(T_Abe),
                             date |-> PyStr(T_date)])])

Body_blank_payer == PyDict([status |-> PyStr(W_paid), payer |-> PyStr(<<" ">>)])

Body_chrome == PyDict([error |-> PyStr(T_Could_not_find_Chrome)])

Body_cache_path == PyDict([status |-> PyStr(W_failed), detail |-> PyStr(W_cache_path)])

Body_rawText == PyDict([rawText |-> PyStr(<<"o","o","p","s">>)])

Err_timeout == [kind |-> "UpstreamTimeout"]

Err_connection == [kind |-> "UpstreamConnectionError"]

Err_404 == [kind |-> "UpstreamError", status_code |-> 404, body |-> Body_rawText]

Err_500 == [kind |-> "UpstreamError", status_code |-> 500, body |-> Body_message_not_found]

MakeCbeDoc(text, payer, payee, date, amount) ==
    [text |-> text, tx |-> None, payer |-> payer, payee |-> payee, date |-> date,
     amount |-> amount]

NoDoc == MakeCbeDoc(<<>>, None, None, None, None)

MakeResponse(status_code, ctype, doc) ==
    [status_code |-> status_code, ctype |-> ctype, doc |-> doc]

Cbe_full ==
    MakeResponse(200, T_application_pdf,
                 MakeCbeDoc(T_receipt, PyStr(T_Abe), PyStr(T_Bo), PyStr(T_date), PyNum(1250)))

Cbe_partial ==
    MakeResponse(200, T_application_pdf, MakeCbeDoc(T_receipt, PyStr(T_Abe), None, None, None))

Cbe_chromium ==
    MakeResponse(200, T_application_pdf,
                 MakeCbeDoc(T_Chromium_PLC, PyStr(T_Chromium_PLC), PyStr(T_Bo),
                            PyStr(T_date), PyNum(1250)))

Cbe_empty == MakeResponse(200, T_application_pdf, NoDoc)

Cbe_html == MakeResponse(200, T_text_html, NoDoc)

Cbe_404 == MakeResponse(404, T_text_html, NoDoc)

Cbe_503 == MakeResponse(503, T_text_html, NoDoc)

NoHtml ==
    [status |-> None, payer_name |-> None, payer_phone |-> None, credited_name |-> None,
     credited_account |-> None, invoice_no |-> None, payment_date |-> None,
     total_paid |-> None, settled_amount |-> None]

TelebirrPayload(status) ==
    PyDict([success |-> PyBool(TRUE),
            data |-> PyDict([payerName |-> PyStr(T_Abe), transactionStatus |-> PyStr(status),
                             paymentDate |-> PyStr(T_date), totalPaidAmount |-> PyNum(2)])])

MakeTelebirrDoc(text, payload, html) == [text |-> text, payload |-> payload, html |-> html]

Tele_completed ==
    MakeResponse(200, T_application_json,
                 MakeTelebirrDoc(<<>>, TelebirrPayload(T_Completed), NoHtml))

Tele_failed ==
    MakeResponse(200, T_application_json,
                 MakeTelebirrDoc(<<>>, TelebirrPayload(T_Failed), NoHtml))

Tele_no_data ==
    MakeResponse(200, T_application_json,
                 MakeTelebirrDoc(<<>>, PyDict([success |-> PyBool(FALSE)]), NoHtml))

Tele_html ==
    MakeResponse(200, T_text_html,
                 MakeTelebirrDoc(T_receipt, None,
                                 [NoHtml EXCEPT !.status = PyStr(T_Completed),
                                                !.payer_name = PyStr(T_Abe),
                                                !.settled_amount = PyNum(2)]))

Tele_empty == MakeResponse(200, T_text_html, MakeTelebirrDoc(<<>>, None, NoHtml))

Tele_404 == MakeResponse(404, T_text_html, MakeTelebirrDoc(<<>>, None, NoHtml))

Tele_503 == MakeResponse(503, T_text_html, MakeTelebirrDoc(<<>>, None, NoHtml))

\* Responses of a content type that the telebirr extractor does not read,
\* with and without text in the body.
Tele_png_text == MakeResponse(200, T_image_png, MakeTelebirrDoc(T_receipt, None, NoHtml))

Tele_png_empty == MakeResponse(200, T_image_png, MakeTelebirrDoc(<<>>, None, NoHtml))

\* The same content type with a JSON payload embedded in the text.
Tele_png_payload ==
    MakeResponse(200, T_image_png,
                 MakeTelebirrDoc(T_receipt, TelebirrPayload(T_Completed), NoHtml))

\* A world: the requests that arrive, the bodies the upstream API can
\* return, the errors its call can raise, and the responses of the two
\* receipt sites.
MakeWorld(arrivals, bodies, errors, cbe, telebirr) ==
    [arrivals |-> arrivals, bodies |-> bodies, errors |-> errors, cbe |-> cbe,
     telebirr |-> telebirr]

\* The configurations and worlds the model starts from.
Scenarios ==
    {<<MakeSettings(TRUE, TRUE, TRUE, TRUE, TRUE),
       MakeWorld({Arrival_cbe_suffix, Arrival_telebirr},
                 {Body_status_not_found}, {Err_timeout}, {Cbe_full}, {Tele_completed})>>,
     <<MakeSettings(TRUE, TRUE, TRUE, TRUE, TRUE),
       MakeWorld({Arrival_cbe_suffix, Arrival_telebirr},
                 {Body_message_not_found}, {Err_connection}, {Cbe_404}, {Tele_failed})>>,
     <<MakeSettings(TRUE, TRUE, TRUE, TRUE, TRUE),
       MakeWorld({Arrival_cbe_colon, Arrival_telebirr},
                 {Body_chrome}, {Err_404}, {Cbe_html},
                 {Tele_no_data, Tele_png_text, Tele_png_empty, Tele_png_payload})>>,
     <<MakeSettings(TRUE, TRUE, TRUE, TRUE, TRUE),
       MakeWorld({Arrival_cbe_suffix, Arrival_cbe_colon},
                 {Body_cache_path, Body_pending_not_found}, {}, {Cbe_full, Cbe_404}, {})>>,
     <<MakeSettings(TRUE, TRUE, TRUE, TRUE, TRUE),
       MakeWorld({Arrival_cbe_suffix, Arrival_telebirr},
                 {Body_success}, {Err_500}, {Cbe_chromium, Cbe_503}, {Tele_404, Tele_503})>>,
     <<[MakeSettings(TRUE, TRUE, TRUE, TRUE, TRUE) EXCEPT !.local_retry_attempts = 3],
       MakeWorld({Arrival_cbe_suffix, Arrival_telebirr},
                 {Body_message_not_found}, {Err_timeout}, {Cbe_empty, Cbe_partial},
                 {Tele_empty})>>,
     <<MakeSettings(FALSE, TRUE, TRUE, FALSE, TRUE),
       MakeWorld({Arrival_cbe_suffix, Arrival_cbe_colon, Arrival_telebirr},
                 {}, {}, {Cbe_full}, {Tele_404, Tele_html})>>,
     <<MakeSettings(TRUE, FALSE, FALSE, TRUE, TRUE),
       MakeWorld({Arrival_cbe_suffix, Arrival_dashen},
                 {Body_message_not_found, Body_blank_payer}, {Err_timeout}, {}, {})>>,
     <<MakeSettings(TRUE, TRUE, FALSE, FALSE, FALSE),
       MakeWorld({Arrival_cbe_suffix, Arrival_telebirr},
                 {Body_chrome}, {Err_timeout}, {Cbe_full}, {})>>}

Responses(p) == IF p = "cbe" THEN world.cbe ELSE world.telebirr

(***************************************************************************)
(* The actions.                                                            *)
(***************************************************************************)
Init ==
    /\ now = 0
    /\ \E sc \in Scenarios : settings = sc[1] /\ world = sc[2]
    /\ store = EmptyMap
    /\ origin = EmptyMap
    /\ buckets = [p \in LocalProviders |-> EmptyMap]
    /\ breaker = [p \in LocalProviders |-> NewBreaker]
    /\ pc = "idle"
    /\ req = NoRequest
    /\ ip = ""
    /\ started = 0
    /\ attempt = 0
    /\ upstream_raw = None
    /\ upstream_error = NoError
    /\ local_raw = None
    /\ raw_ref = "none"
    /\ decision = NoDecision
    /\ result = NoResult
    /\ events = {}
    /\ upstream_calls = 0
    /\ local_fetches = 0
    /\ served = 0
    /\ handlers = <<>>
    /\ history = <<>>

\* A request arrives: lines 192-235, up to the upstream call being sent.
\* verify_by_reference raises ValueError before sending when no API key is
\* configured.
Receive(r, i) ==
    /\ pc \in {"idle", "done"}
    /\ served < MaxRequests
    /\ LET got == TtlCache_get(store, cache_key(r), now)
           S0 == [Cur EXCEPT !.req = r, !.ip = i, !.store = got.store, !.attempt = 0,
                             !.upstream_raw = None, !.upstream_error = NoError,
                             !.local_raw = None, !.raw_ref = "none",
                             !.decision = NoDecision,
                             !.result = NoResult, !.events = {},
                             !.upstream_calls = 0, !.local_fetches = 0]
       IN  IF got.value # None
           THEN Commit([S0 EXCEPT !.pc = "done",
                                  !.result = [kind |-> "record", out |-> got.value],
                                  !.events = {"cache_hit"}])
           ELSE IF ~settings.verify_api_key_set
           THEN Commit(AfterUpstream([S0 EXCEPT !.upstream_error = [kind |-> "ValueError"]]))
           ELSE Commit([S0 EXCEPT !.pc = "upstream", !.upstream_calls = 1,
                                  !.events = {"upstream_call"}])
    /\ started' = now
    /\ served' = served + 1
    /\ UNCHANGED <<now, settings, world, handlers, history>>

\* The upstream call returns a body.
UpstreamReturns(b) ==
    /\ pc = "upstream"
    /\ Commit(AfterUpstream([Cur EXCEPT !.upstream_raw = b]))
    /\ UNCHANGED <<now, settings, world, handlers, history, started, served>>

\* The upstream call raises.
UpstreamRaises(e) ==
    /\ pc = "upstream"
    /\ Commit(AfterUpstream([Cur EXCEPT !.upstream_error = e]))
    /\ UNCHANGED <<now, settings, world, handlers, history, started, served>>

\* The fetch of the extractor returns a response.
FetchReturns(resp) ==
    /\ pc = "fetch"
    /\ Commit(AfterFetch(Cur, resp))
    /\ UNCHANGED <<now, settings, world, handlers, history, started, served>>

\* The fetch raises httpx.TimeoutException or httpx.RequestError on the last
\* attempt of retry_async.
FetchRaisesLast ==
    /\ pc = "fetch"
    /\ attempt >= RetryAttempts(settings)
    /\ Commit(FetchExhausted(Cur))
    /\ UNCHANGED <<now, settings, world, handlers, history, started, served>>

\* The fetch raises on an earlier attempt: retry_async sleeps when the
\* jittered delay is positive and fetches again at once when it is 0.
FetchRaisesRetry(sleeps) ==
    /\ pc = "fetch"
    /\ attempt < RetryAttempts(settings)
    /\ sleeps => RetryMaxDelay(settings, attempt) > 0
    /\ IF sleeps
       THEN Commit([Cur EXCEPT !.pc = "sleep", !.events = @ \cup {"sleep"}])
       ELSE Commit([Cur EXCEPT !.attempt = @ + 1, !.local_fetches = @ + 1])
    /\ UNCHANGED <<now, settings, world, handlers, history, started, served>>

\* asyncio.sleep returns and retry_async fetches again.
RetryWake ==
    /\ pc = "sleep"
    /\ Commit([Cur EXCEPT !.pc = "fetch", !.attempt = @ + 1, !.local_fetches = @ + 1])
    /\ UNCHANGED <<now, settings, world, handlers, history, started, served>>

\* Time passes.
Tick ==
    /\ now < MaxTime
    /\ now' = now + 1
    /\ UNCHANGED <<settings, world, handlers, history, store, origin, buckets, breaker, pc, req, ip, started,
                   attempt, upstream_raw, upstream_error, local_raw, raw_ref, decision,
                   result, events, upstream_calls, local_fetches, served>>

Next ==
    \/ \E a \in world.arrivals : Receive(a[1], a[2])
    \/ \E b \in world.bodies : UpstreamReturns(b)
    \/ \E e \in world.errors : UpstreamRaises(e)
    \/ \E resp \in Responses(req.provider) : FetchReturns(resp)
    \/ FetchRaisesLast
    \/ \E sleeps \in BOOLEAN : FetchRaisesRetry(sleeps)
    \/ RetryWake
    \/ Tick

Spec == Init /\ [][Next]_vars

(***************************************************************************)
(* normalize_status applied to raw field maps: every map whose keys are    *)
(* among RawKeys and whose values are among RawValues.                     *)
(***************************************************************************)
RawKeys == {"status", "state", "success", "is_verified", "message", "detail"}

T_OK_padded == <<" ","O","K"," ">>

T_Failed_try_again ==
    <<"F","a","i","l","e","d",","," ","t","r","y"," ","a","g","a","i","n">>

T_Unverified_failed ==
    <<"U","n","v","e","r","i","f","i","e","d",","," ","f","a","i","l","e","d">>

T_Verified == <<"V","e","r","i","f","i","e","d">>

RawValues ==
    {PyStr(T_OK_padded), PyStr(T_Failed_try_again), PyStr(T_Unverified_failed),
     PyStr(T_Verified), PyStr(<<>>), PyBool(TRUE), PyBool(FALSE)}

RawMaps == UNION {[K -> RawValues] : K \in SUBSET RawKeys}

NormInit ==
    /\ now = 0
    /\ settings = MakeSettings(TRUE, TRUE, TRUE, TRUE, TRUE)
    /\ world = MakeWorld({}, {}, {}, {}, {})
    /\ store = EmptyMap
    /\ origin = EmptyMap
    /\ buckets = [p \in LocalProviders |-> EmptyMap]
    /\ breaker = [p \in LocalProviders |-> NewBreaker]
    /\ pc = "normalize"
    /\ req = NoRequest
    /\ ip = ""
    /\ started = 0
    /\ attempt = 0
    /\ \E m \in RawMaps : upstream_raw = PyDict(m)
    /\ upstream_error = NoError
    /\ local_raw = None
    /\ raw_ref = "none"
    /\ decision = NoDecision
    /\ result = NoResult
    /\ events = {}
    /\ upstream_calls = 0
    /\ local_fetches = 0
    /\ served = 0
    /\ handlers = <<>>
    /\ history = <<>>

\* status = normalize_status(raw)
Normalize ==
    /\ pc = "normalize"
    /\ pc' = "normalized"
    /\ result' = [kind |-> "status", status |-> normalize_status(upstream_raw.v)]
    /\ UNCHANGED <<now, settings, world, handlers, history, store, origin, buckets, breaker, req, ip, started,
                   attempt, upstream_raw, upstream_error, local_raw, raw_ref, decision,
                   events, upstream_calls, local_fetches, served>>

NormNext == Normalize

NormSpec == NormInit /\ [][NormNext]_vars

(***************************************************************************)
(* _parse_amount applied to receipt texts: every text made of one to       *)
(* MaxSegments of the segments below, joined by single spaces as _clean    *)
(* leaves them.                                                            *)
(***************************************************************************)
T_Transferred_Amount_1250 ==
    <<"T","r","a","n","s","f","e","r","r","e","d"," ","A","m","o","u","n","t"," ","1",",",
      "2","5","0",".","0","0"," ","E","T","B">>

T_VAT_15_percent ==
    <<"V","A","T"," ","1","5","%">>

T_Fee_15_ETB ==
    <<"F","e","e"," ","1","5"," ","E","T","B">>

T_Total_debited_1265 ==
    <<"T","o","t","a","l"," ","a","m","o","u","n","t"," ","d","e","b","i","t","e","d"," ",
      "f","r","o","m"," ","c","u","s","t","o","m","e","r","s"," ","a","c","c","o","u","n",
      "t"," ","1",",","2","6","5",".","0","0"," ","E","T","B">>

T_ETB_15_percent ==
    <<"E","T","B"," ","1","5","%">>

ReceiptSegments ==
    {T_Transferred_Amount_1250, T_VAT_15_percent, T_Fee_15_ETB, T_Total_debited_1265,
     T_ETB_15_percent}

MaxSegments == 3

RECURSIVE JoinSegments(_)
\* " ".join(segs)
JoinSegments(segs) ==
    IF Len(segs) = 1 THEN segs[1]
    ELSE segs[1] \o <<" ">> \o JoinSegments(Tail(segs))

ReceiptTexts ==
    {JoinSegments(segs) : segs \in UNION {[1..n -> ReceiptSegments] : n \in 1..MaxSegments}}

AmountInit ==
    /\ now = 0
    /\ settings = MakeSettings(TRUE, TRUE, TRUE, TRUE, TRUE)
    /\ \E text \in ReceiptTexts :
           world = MakeWorld({}, {}, {},
                             {MakeResponse(200, T_application_pdf,
                                           MakeCbeDoc(text, None, None, None, None))},
                             {})
    /\ store = EmptyMap
    /\ origin = EmptyMap
    /\ buckets = [p \in LocalProviders |-> EmptyMap]
    /\ breaker = [p \in LocalProviders |-> NewBreaker]
    /\ pc = "parse"
    /\ req = NoRequest
    /\ ip = ""
    /\ started = 0
    /\ attempt = 0
    /\ upstream_raw = None
    /\ upstream_error = NoError
    /\ local_raw = None
    /\ raw_ref = "none"
    /\ decision = NoDecision
    /\ result = NoResult
    /\ events = {}
    /\ upstream_calls = 0
    /\ local_fetches = 0
    /\ served = 0
    /\ handlers = <<>>
    /\ history = <<>>

\* The extractor's result for a receipt whose text holds only amounts.
AmountRaw(text, amount) ==
    PyDict([success |-> PyBool(TRUE),
            data |-> PyDict([amount |-> amount, source |-> PyStr(W_cbe_receipt_pdf)]),
            rawText |-> PyStr(text)])

\* amount = _parse_amount(text) in the extractor, then normalize_fields(raw)
\* in the handler.
ParseAmount ==
    /\ pc = "parse"
    /\ pc' = "parsed"
    /\ \E resp \in world.cbe :
           /\ local_raw' = AmountRaw(resp.doc.text, _parse_amount(resp.doc.text))
           /\ result' = [kind |-> "amount",
                         amount |-> normalize_fields(
                                        AmountRaw(resp.doc.text,
                                                  _parse_amount(resp.doc.text)).v)[1]]
    /\ UNCHANGED <<now, settings, world, handlers, history, store, origin, buckets, breaker, req, ip, started,
                   attempt, upstream_raw, upstream_error, raw_ref, decision, events,
                   upstream_calls, local_fetches, served>>

AmountNext == ParseAmount

AmountSpec == AmountInit /\ [][AmountNext]_vars

(***************************************************************************)
(* TtlCache on its own: get and set on CacheKeys with CacheValues, in any  *)
(* order, as time passes.  history records when each key was last set.     *)
(***************************************************************************)
CacheKeys == {T_FT1, T_AB2}

CacheValues == {PyStr(T_Abe), PyStr(T_Bo)}

\* No request is being handled.
HandlerAtRest ==
    /\ req = NoRequest
    /\ ip = ""
    /\ started = 0
    /\ attempt = 0
    /\ upstream_raw = None
    /\ upstream_error = NoError
    /\ local_raw = None
    /\ raw_ref = "none"
    /\ decision = NoDecision
    /\ result = NoResult
    /\ events = {}
    /\ upstream_calls = 0
    /\ local_fetches = 0
    /\ served = 0
    /\ handlers = <<>>
    /\ history = <<>>

CacheInit ==
    /\ now = 0
    /\ settings = MakeSettings(TRUE, TRUE, TRUE, TRUE, TRUE)
    /\ world = MakeWorld({}, {}, {}, {}, {})
    /\ store = EmptyMap
    /\ origin = EmptyMap
    /\ buckets = [p \in LocalProviders |-> EmptyMap]
    /\ breaker = [p \in LocalProviders |-> NewBreaker]
    /\ pc = "cache"
    /\ HandlerAtRest

\* cache.get(key)
CacheGet(key) ==
    /\ store' = TtlCache_get(store, key, now).store
    /\ result' = [kind |-> "get", key |-> key, value |-> TtlCache_get(store, key, now).value]
    /\ UNCHANGED <<now, settings, world, handlers, history, origin, buckets, breaker, pc, req, ip, started,
                   attempt, upstream_raw, upstream_error, local_raw, raw_ref, decision,
                   events, upstream_calls, local_fetches, served>>

\* cache.set(key, value)
CacheSet(key, value) ==
    /\ store' = TtlCache_set(store, key, value, now, settings.cache_ttl_seconds)
    /\ history' = [k \in DOMAIN history \cup {key} |->
                      IF k = key THEN [set_at |-> now] ELSE history[k]]
    /\ result' = [kind |-> "set", key |-> key, value |-> value]
    /\ UNCHANGED <<now, settings, world, handlers, origin, buckets, breaker, pc, req, ip, started,
                   attempt, upstream_raw, upstream_error, local_raw, raw_ref, decision,
                   events, upstream_calls, local_fetches, served>>

CacheNext ==
    \/ \E k \in CacheKeys : CacheGet(k)
    \/ \E k \in CacheKeys, v \in CacheValues : CacheSet(k, v)
    \/ Tick

CacheSpec == CacheInit /\ [][CacheNext]_vars

(***************************************************************************)
(* CircuitBreaker on its own: before_call, record_success and              *)
(* record_failure on the two breakers in any order, as time passes, with   *)
(* the breakers enabled or disabled.  history counts, for each breaker,    *)
(* the failures recorded since the last success, and tells whether a       *)
(* success was recorded while the circuit was open and whether the last    *)
(* failure was recorded after the reset window of an open circuit.         *)
(***************************************************************************)
MaxFailures == 3

BreakerInit ==
    /\ now = 0
    /\ \E enabled \in BOOLEAN : settings = MakeSettings(TRUE, TRUE, TRUE, TRUE, enabled)
    /\ world = MakeWorld({}, {}, {}, {}, {})
    /\ store = EmptyMap
    /\ origin = EmptyMap
    /\ buckets = [p \in LocalProviders |-> EmptyMap]
    /\ breaker = [p \in LocalProviders |-> NewBreaker]
    /\ pc = "breaker"
    /\ req = NoRequest
    /\ ip = ""
    /\ started = 0
    /\ attempt = 0
    /\ upstream_raw = None
    /\ upstream_error = NoError
    /\ local_raw = None
    /\ raw_ref = "none"
    /\ decision = NoDecision
    /\ result = NoResult
    /\ events = {}
    /\ upstream_calls = 0
    /\ local_fetches = 0
    /\ served = 0
    /\ handlers = <<>>
    /\ history = [p \in LocalProviders |->
                      [failures |-> 0, success_while_open |-> FALSE,
                       failure_after_window |-> FALSE]]

\* _breaker.before_call()
BreakerBeforeCall(p) ==
    /\ result' = [kind |-> "before_call", provider |-> p,
                  raised |-> CircuitBreaker_before_call(breaker[p], now, settings)]
    /\ UNCHANGED <<now, settings, world, handlers, history, store, origin, buckets, breaker,
                   pc, req, ip, started, attempt, upstream_raw, upstream_error, local_raw,
                   raw_ref, decision, events, upstream_calls, local_fetches, served>>

\* _breaker.record_success()
BreakerRecordSuccess(p) ==
    /\ breaker' = [breaker EXCEPT ![p] = CircuitBreaker_record_success(@)]
    /\ history' = [history EXCEPT ![p] = [failures |-> 0,
                                          success_while_open |-> now < breaker[p].open_until,
                                          failure_after_window |-> FALSE]]
    /\ result' = [kind |-> "record_success", provider |-> p]
    /\ UNCHANGED <<now, settings, world, handlers, store, origin, buckets,
                   pc, req, ip, started, attempt, upstream_raw, upstream_error, local_raw,
                   raw_ref, decision, events, upstream_calls, local_fetches, served>>

\* _breaker.record_failure()
BreakerRecordFailure(p) ==
    /\ history[p].failures < MaxFailures
    /\ breaker' = [breaker EXCEPT ![p] = CircuitBreaker_record_failure(@, now, settings)]
    /\ history' = [history EXCEPT ![p].failures = @ + 1,
                                  ![p].failure_after_window =
                                      /\ breaker[p].open_until # 0
                                      /\ now >= breaker[p].open_until]
    /\ result' = [kind |-> "record_failure", provider |-> p]
    /\ UNCHANGED <<now, settings, world, handlers, store, origin, buckets,
                   pc, req, ip, started, attempt, upstream_raw, upstream_error, local_raw,
                   raw_ref, decision, events, upstream_calls, local_fetches, served>>

BreakerNext ==
    \/ \E p \in LocalProviders : BreakerBeforeCall(p)
    \/ \E p \in LocalProviders : BreakerRecordSuccess(p)
    \/ \E p \in LocalProviders : BreakerRecordFailure(p)
    \/ Tick

BreakerSpec == BreakerInit /\ [][BreakerNext]_vars

(***************************************************************************)
(* retry_async on its own, as the extractors call it: the specification    *)
(* starts where a handler whose upstream call timed out has sent the first *)
(* fetch of the local extractor, with 0 to MaxAttempts configured attempts *)
(* and a base delay of 0 or 200 ms.  Every fetch completes and every sleep *)
(* ends: the HTTP client has a timeout and the delay is finite.            *)
(***************************************************************************)
MaxAttempts == 3

\* The state of a handler that has not received a request.
RestState ==
    [store |-> EmptyMap, origin |-> EmptyMap,
     buckets |-> [p \in LocalProviders |-> EmptyMap],
     breaker |-> [p \in LocalProviders |-> NewBreaker],
     pc |-> "idle", req |-> NoRequest, ip |-> "", attempt |-> 0,
     upstream_raw |-> None, upstream_error |-> NoError, local_raw |-> None,
     raw_ref |-> "none", decision |-> NoDecision, result |-> NoResult, events |-> {},
     upstream_calls |-> 0, local_fetches |-> 0]

\* The specification starts in the state S.
StartsAs(S) ==
    /\ store = S.store
    /\ origin = S.origin
    /\ buckets = S.buckets
    /\ breaker = S.breaker
    /\ pc = S.pc
    /\ req = S.req
    /\ ip = S.ip
    /\ attempt = S.attempt
    /\ upstream_raw = S.upstream_raw
    /\ upstream_error = S.upstream_error
    /\ local_raw = S.local_raw
    /\ raw_ref = S.raw_ref
    /\ decision = S.decision
    /\ result = S.result
    /\ events = S.events
    /\ upstream_calls = S.upstream_calls
    /\ local_fetches = S.local_fetches

RetryInit ==
    /\ now = 0
    /\ \E n \in 0..MaxAttempts, d \in {0, 200} :
           settings = [MakeSettings(TRUE, TRUE, TRUE, TRUE, TRUE)
                           EXCEPT !.local_retry_attempts = n,
                                  !.local_retry_base_delay_ms = d]
    /\ world = MakeWorld({Arrival_cbe_suffix, Arrival_telebirr}, {}, {Err_timeout},
                         {Cbe_full, Cbe_404}, {Tele_completed})
    /\ \E a \in world.arrivals :
           StartsAs(AfterUpstream([RestState EXCEPT !.req = a[1], !.ip = a[2],
                                                    !.upstream_error = Err_timeout,
                                                    !.upstream_calls = 1,
                                                    !.events = {"upstream_call"}]))
    /\ started = 0
    /\ served = 1
    /\ handlers = <<>>
    /\ history = <<>>

\* The fetch raises an exception that is neither an httpx.TimeoutException,
\* nor an httpx.RequestError, nor a RuntimeError.
FetchRaisesOther ==
    /\ pc = "fetch"
    /\ Commit(FetchNotRetryable(Cur))
    /\ UNCHANGED <<now, settings, world, handlers, history, started, served>>

RetryNext ==
    \/ \E resp \in Responses(req.provider) : FetchReturns(resp)
    \/ FetchRaisesLast
    \/ \E sleeps \in BOOLEAN : FetchRaisesRetry(sleeps)
    \/ RetryWake
    \/ FetchRaisesOther

\* A fetch in flight completes and a sleep ends.  Each of the three actions
\* is disabled by any other completion of the fetch, so the conditions only
\* exclude a fetch or a sleep that never ends.
RetryFairness ==
    /\ WF_vars(FetchRaisesLast)
    /\ WF_vars(\E sleeps \in BOOLEAN : FetchRaisesRetry(sleeps))
    /\ WF_vars(RetryWake)

RetrySpec == RetryInit /\ [][RetryNext]_vars /\ RetryFairness

(***************************************************************************)
(* FixedWindowRateLimiter on its own: hits on one of the local limiters,   *)
(* that of the provider of req, by the identities of ClientAddresses, in   *)
(* any order, as time passes through the windows up to MaxLimiterTime.  An *)
(* identity that was refused waits for the next window.  history keeps,    *)
(* for each limiter, the bucket keys that hits have created.               *)
(***************************************************************************)
MaxLimiterTime == 5

ClientAddresses == {"10.0.0.1", "10.0.0.2"}

LimiterInit ==
    /\ now = 0
    /\ settings = MakeSettings(TRUE, TRUE, TRUE, TRUE, TRUE)
    /\ world = MakeWorld({}, {}, {}, {}, {})
    /\ store = EmptyMap
    /\ origin = EmptyMap
    /\ buckets = [p \in LocalProviders |-> EmptyMap]
    /\ breaker = [p \in LocalProviders |-> NewBreaker]
    /\ pc = "limiter"
    /\ req \in {[NoRequest EXCEPT !.provider = p] : p \in LocalProviders}
    /\ ip = ""
    /\ started = 0
    /\ attempt = 0
    /\ upstream_raw = None
    /\ upstream_error = NoError
    /\ local_raw = None
    /\ raw_ref = "none"
    /\ decision = NoDecision
    /\ result = NoResult
    /\ events = {}
    /\ upstream_calls = 0
    /\ local_fetches = 0
    /\ served = 0
    /\ handlers = <<>>
    /\ history = [p \in LocalProviders |-> {}]

\* The count of the bucket of an identity for the window of time t.
BucketCount(bk, identity, t) ==
    IF <<identity, t \div WindowSeconds>> \in DOMAIN bk
    THEN bk[<<identity, t \div WindowSeconds>>]
    ELSE 0

\* limiter.hit(f"{ip}:{provider}:local") on the limiter of provider p.
LimiterHit(p, i) ==
    /\ p = req.provider
    /\ BucketCount(buckets[p], <<i, p, "local">>, now) <= LocalLimit(settings, p)
    /\ buckets' = [buckets EXCEPT ![p] =
                       FixedWindowRateLimiter_hit(@, <<i, p, "local">>, now,
                                                  LocalLimit(settings, p)).buckets]
    /\ decision' = DecisionOf(FixedWindowRateLimiter_hit(buckets[p], <<i, p, "local">>, now,
                                                         LocalLimit(settings, p)))
    /\ result' = [kind |-> "hit", provider |-> p, identity |-> <<i, p, "local">>]
    /\ history' = [history EXCEPT ![p] = @ \cup {<<<<i, p, "local">>, now \div WindowSeconds>>}]
    /\ UNCHANGED <<now, settings, world, handlers, store, origin, breaker, pc, req, ip,
                   started, attempt, upstream_raw, upstream_error, local_raw, raw_ref,
                   events, upstream_calls, local_fetches, served>>

\* Time passes.
LimiterTick ==
    /\ now < MaxLimiterTime
    /\ now' = now + 1
    /\ UNCHANGED <<settings, world, handlers, history, store, origin, buckets, breaker, pc,
                   req, ip, started, attempt, upstream_raw, upstream_error, local_raw,
                   raw_ref, decision, result, events, upstream_calls, local_fetches, served>>

LimiterNext ==
    \/ \E p \in LocalProviders, i \in ClientAddresses : LimiterHit(p, i)
    \/ LimiterTick

LimiterSpec == LimiterInit /\ [][LimiterNext]_vars

(***************************************************************************)
(* Requests handled concurrently.  The handlers are coroutines of one      *)
(* event loop: a handler runs from one await that suspends to the next     *)
(* (the upstream call, the fetch of the extractor, the sleep of            *)
(* retry_async) without another handler running in between.  Each of       *)
(* MaxHandlers handlers serves one request; the cache, the limiter buckets *)
(* and the breakers are shared, everything else is local to the handler   *)
(* and is gone when the handler has answered.  Time passes up to the start *)
(* of the second window.  history counts, for each bucket key, the hits    *)
(* made and the hits answered allowed.                                     *)
(***************************************************************************)
MaxHandlers == 3

\* The local variables of a handler that has not received its request.
IdleHandler ==
    [pc |-> "idle", req |-> NoRequest, ip |-> "", attempt |-> 0,
     upstream_raw |-> None, upstream_error |-> NoError, local_raw |-> None,
     raw_ref |-> "none", decision |-> NoDecision, result |-> NoResult, events |-> {},
     upstream_calls |-> 0, local_fetches |-> 0]

\* The state a step of handler h works on.
CurOf(h) ==
    [store |-> store, origin |-> origin, buckets |-> buckets, breaker |-> breaker,
     pc |-> handlers[h].pc, req |-> handlers[h].req, ip |-> handlers[h].ip,
     attempt |-> handlers[h].attempt,
     upstream_raw |-> handlers[h].upstream_raw,
     upstream_error |-> handlers[h].upstream_error,
     local_raw |-> handlers[h].local_raw, raw_ref |-> handlers[h].raw_ref,
     decision |-> handlers[h].decision, result |-> handlers[h].result,
     events |-> handlers[h].events, upstream_calls |-> handlers[h].upstream_calls,
     local_fetches |-> handlers[h].local_fetches]

\* The local variables of the state S; none are left when the handler has
\* answered.
LocalsOf(S) ==
    IF S.pc = "done" THEN [IdleHandler EXCEPT !.pc = "done"] ELSE
    [pc |-> S.pc, req |-> S.req, ip |-> S.ip, attempt |-> S.attempt,
     upstream_raw |-> S.upstream_raw, upstream_error |-> S.upstream_error,
     local_raw |-> S.local_raw, raw_ref |-> S.raw_ref, decision |-> S.decision,
     result |-> S.result, events |-> S.events, upstream_calls |-> S.upstream_calls,
     local_fetches |-> S.local_fetches]

\* The bucket key that a hit of the handler in state S counts in.
HitKey(S) == <<<<S.ip, S.req.provider, "local">>, now \div WindowSeconds>>

\* history after a step of a handler from the events before to the state S:
\* _try_local runs once in a request, so that the step has hit the limiter
\* when rl_hit is new among the events.
Counted(before, S) ==
    IF "rl_hit" \in S.events /\ "rl_hit" \notin before
    THEN [k \in DOMAIN history \cup {HitKey(S)} |->
              IF k = HitKey(S)
              THEN [made |-> (IF k \in DOMAIN history THEN history[k].made ELSE 0) + 1,
                    allowed |-> (IF k \in DOMAIN history THEN history[k].allowed ELSE 0)
                                    + (IF S.decision.allowed THEN 1 ELSE 0)]
              ELSE history[k]]
    ELSE history

\* The step of handler h leaves the state S.
CommitOf(h, before, S) ==
    /\ store' = S.store
    /\ origin' = S.origin
    /\ buckets' = S.buckets
    /\ breaker' = S.breaker
    /\ handlers' = [handlers EXCEPT ![h] = LocalsOf(S)]
    /\ history' = Counted(before, S)
    /\ UNCHANGED <<now, settings, world, pc, req, ip, started, attempt, upstream_raw,
                   upstream_error, local_raw, raw_ref, decision, result, events,
                   upstream_calls, local_fetches, served>>

ConcInit ==
    /\ now = 0
    /\ settings = MakeSettings(TRUE, TRUE, TRUE, TRUE, TRUE)
    /\ world = MakeWorld({Arrival_cbe_suffix}, {Body_message_not_found}, {},
                         {Cbe_full}, {})
    /\ store = EmptyMap
    /\ origin = EmptyMap
    /\ buckets = [p \in LocalProviders |-> EmptyMap]
    /\ breaker = [p \in LocalProviders |-> NewBreaker]
    /\ pc = "concurrent"
    /\ req = NoRequest
    /\ ip = ""
    /\ started = 0
    /\ attempt = 0
    /\ upstream_raw = None
    /\ upstream_error = NoError
    /\ local_raw = None
    /\ raw_ref = "none"
    /\ decision = NoDecision
    /\ result = NoResult
    /\ events = {}
    /\ upstream_calls = 0
    /\ local_fetches = 0
    /\ served = 0
    /\ handlers = [h \in 1..MaxHandlers |-> IdleHandler]
    /\ history = EmptyMap

\* Handler h receives its request: lines 192-235, up to the upstream call
\* being sent.  The handlers take their requests in the order of their
\* numbers.
ConcReceive(h, r, i) ==
    /\ handlers[h].pc = "idle"
    /\ h > 1 => handlers[h - 1].pc # "idle"
    /\ LET got == TtlCache_get(store, cache_key(r), now)
           S0 == [CurOf(h) EXCEPT !.req = r, !.ip = i, !.store = got.store]
       IN  IF got.value # None
           THEN CommitOf(h, {}, [S0 EXCEPT !.pc = "done",
                                           !.result = [kind |-> "record", out |-> got.value],
                                           !.events = {"cache_hit"}])
           ELSE CommitOf(h, {}, [S0 EXCEPT !.pc = "upstream", !.upstream_calls = 1,
                                           !.events = {"upstream_call"}])

\* The upstream call of handler h returns a body.
ConcUpstreamReturns(h, b) ==
    /\ handlers[h].pc = "upstream"
    /\ CommitOf(h, handlers[h].events, AfterUpstream([CurOf(h) EXCEPT !.upstream_raw = b]))

\* The fetch of handler h returns a response.
ConcFetchReturns(h, resp) ==
    /\ handlers[h].pc = "fetch"
    /\ CommitOf(h, handlers[h].events, AfterFetch(CurOf(h), resp))

\* The fetch of handler h raises on the last attempt of retry_async.
ConcFetchRaisesLast(h) ==
    /\ handlers[h].pc = "fetch"
    /\ handlers[h].attempt >= RetryAttempts(settings)
    /\ CommitOf(h, handlers[h].events, FetchExhausted(CurOf(h)))

\* The fetch of handler h raises on an earlier attempt and retry_async sleeps.
ConcFetchRaisesRetry(h) ==
    /\ handlers[h].pc = "fetch"
    /\ handlers[h].attempt < RetryAttempts(settings)
    /\ CommitOf(h, handlers[h].events,
                [CurOf(h) EXCEPT !.pc = "sleep", !.events = @ \cup {"sleep"}])

\* asyncio.sleep returns in handler h and retry_async fetches again.
ConcRetryWake(h) ==
    /\ handlers[h].pc = "sleep"
    /\ CommitOf(h, handlers[h].events,
                [CurOf(h) EXCEPT !.pc = "fetch", !.attempt = @ + 1, !.local_fetches = @ + 1])

\* Time passes.
ConcTick ==
    /\ now < WindowSeconds
    /\ now' = now + 1
    /\ UNCHANGED <<settings, world, handlers, history, store, origin, buckets, breaker, pc,
                   req, ip, started, attempt, upstream_raw, upstream_error, local_raw,
                   raw_ref, decision, result, events, upstream_calls, local_fetches, served>>

ConcNext ==
    \/ \E h \in 1..MaxHandlers, a \in world.arrivals : ConcReceive(h, a[1], a[2])
    \/ \E h \in 1..MaxHandlers, b \in world.bodies : ConcUpstreamReturns(h, b)
    \/ \E h \in 1..MaxHandlers, resp \in world.cbe : ConcFetchReturns(h, resp)
    \/ \E h \in 1..MaxHandlers : ConcFetchRaisesLast(h)
    \/ \E h \in 1..MaxHandlers : ConcFetchRaisesRetry(h)
    \/ \E h \in 1..MaxHandlers : ConcRetryWake(h)
    \/ ConcTick

ConcSpec == ConcInit /\ [][ConcNext]_vars

(***************************************************************************)
(* Properties.                                                             *)
(***************************************************************************)
\* The handler finished without the cache answering.
Handled == pc = "done" /\ "cache_hit" \notin events

\* The extractor of the request's provider was invoked.
LocalAttempted == "extractor" \in events

\* No entry of the cache was written or rewritten by the step.
NoCacheWrite == \A k \in DOMAIN store' : k \in DOMAIN store /\ store'[k] = store[k]

\* C1: for a cbe request with local extraction enabled, if the upstream call
\* returns {"status": "not_found"} and the receipt site holds a PDF with
\* amount, payer and date, the final record has source=local, status=SUCCESS
\* and confidence=high.
C1_StatusNotFoundFallsBack ==
    (/\ Handled
     /\ req.provider = "cbe"
     /\ settings.local_cbe_receipt_enabled
     /\ upstream_raw = Body_status_not_found
     /\ world.cbe = {Cbe_full}
     /\ "rl_denied" \notin events
     /\ result.kind # "unhandled")
    => /\ result.kind = "record"
       /\ result.out.source = "local"
       /\ result.out.status = "SUCCESS"
       /\ result.out.confidence = "high"

C3_NoCrossRequestCacheHit ==
    "cache_hit" \in events => origin[cache_key(req)] = req

\* C4: the record is built from the local result when there is one that
\* normalizes to SUCCESS, else from the upstream result when there is one,
\* else from the local result; the source names that result and is present.
C4_ResultSelection ==
    (Handled /\ result.kind = "record") =>
        LET out == result.out
            localOk == local_raw # None /\ normalize_status(local_raw.v) = "SUCCESS"
        IN  /\ out.source \in {"local", "upstream"}
            /\ localOk =>
                   raw_ref = "local_raw" /\ out.raw = local_raw /\ out.source = "local"
            /\ (~localOk /\ upstream_raw # None) =>
                   /\ raw_ref = "upstream_raw"
                   /\ out.raw = upstream_raw
                   /\ out.source = "upstream"
            /\ (~localOk /\ upstream_raw = None /\ local_raw # None) =>
                   raw_ref = "local_raw" /\ out.raw = local_raw /\ out.source = "local"

\* A successful local result was preferred to an existing upstream result.
C4_Witness ==
    /\ Handled
    /\ result.kind = "record"
    /\ upstream_raw # None
    /\ local_raw # None
    /\ result.out.source = "local"
    /\ result.out.status = "SUCCESS"

\* C5: whenever the upstream call raised (timeout, connection error, HTTP
\* error, configuration error) and the provider's local extractor is
\* enabled, the extractor is invoked unless the local rate limiter denies.
C5_UpstreamExceptionFallsBack ==
    (upstream_error # NoError /\ LocalEnabled(settings, req.provider))
    => (LocalAttempted \/ "rl_denied" \in events)

\* The extractor fetched after the upstream call timed out.
C5_Witness ==
    /\ upstream_error.kind = "UpstreamTimeout"
    /\ LocalAttempted
    /\ "fetch" \in events

\* The upstream outcome is classified as not found or as an automation failure.
UpstreamClassified ==
    \/ /\ upstream_error.kind = "UpstreamError"
       /\ (upstream_error.status_code = 404 \/ _looks_like_not_found(upstream_error.body))
    \/ /\ upstream_raw # None
       /\ \/ _contains_puppeteer_error(upstream_raw)
          \/ _looks_like_automation_error(upstream_raw)
          \/ normalize_status(upstream_raw.v) = "FAILED" /\ _looks_like_not_found(upstream_raw)

\* C6 as stated: the extractor is invoked only when the upstream outcome is
\* classified as not found or as an automation failure.
C6_OnlyClassifiedFailuresFallBack == LocalAttempted => UpstreamClassified

\* C6 amended: the extractor is invoked only when the upstream call raised
\* or its outcome is classified as not found or as an automation failure.
C6_FallbackOnlyOnFailure ==
    LocalAttempted => (upstream_error # NoError \/ UpstreamClassified)

\* The extractor was invoked after a connection error of the upstream call.
C6_Witness ==
    /\ LocalAttempted
    /\ upstream_error.kind = "UpstreamConnectionError"
    /\ ~UpstreamClassified

\* The upstream result normalizes to PENDING.
UpstreamPending == upstream_raw # None /\ normalize_status(upstream_raw.v) = "PENDING"

\* The request ended with a PENDING record built from the upstream result
\* and no use of the local extractor or its rate limiter.
UpstreamTrusted ==
    /\ pc = "done"
    /\ ~LocalAttempted
    /\ "rl_hit" \notin events
    /\ local_fetches = 0
    /\ result.kind = "record"
    /\ result.out.raw = upstream_raw
    /\ result.out.status = "PENDING"
    /\ result.out.source = "upstream"

\* C7 as stated: a PENDING upstream result is always trusted as it is.
C7_PendingAlwaysTrusted == UpstreamPending => UpstreamTrusted

\* C7 amended: a PENDING upstream result that matches neither
\* automation-failure signature is trusted as it is.
C7_PendingTrustedUnlessAutomation ==
    (/\ UpstreamPending
     /\ ~_contains_puppeteer_error(upstream_raw)
     /\ ~_looks_like_automation_error(upstream_raw))
    => UpstreamTrusted

\* A PENDING upstream result with a not-found message was trusted for a
\* provider whose extractor is enabled.
C7_Witness ==
    /\ UpstreamPending
    /\ _looks_like_not_found(upstream_raw)
    /\ LocalEnabled(settings, req.provider)
    /\ UpstreamTrusted

\* The step hit the local rate limiter of the request's provider and the
\* bucket of the identity (client IP, provider, "local") is over the limit.
LocalLimitExceeded ==
    /\ buckets' # buckets
    /\ LET p == req'.provider
           key == <<(<<ip', p, "local">>), now \div WindowSeconds>>
       IN  buckets'[p][key] > Max(1, LocalLimit(settings, p))

\* C8: when the local rate limiter denies the hit, the request fails at once
\* with 429: no fetch, the breakers unchanged, nothing written to the cache.
C8_LocalRateLimitDenies ==
    [][LocalLimitExceeded
       => (/\ pc' = "done"
           /\ result' = [kind |-> "http_error", status_code |-> 429]
           /\ local_fetches' = 0
           /\ ~LocalAttempted'
           /\ breaker' = breaker
           /\ NoCacheWrite)]_vars

\* A fallback was denied by the local rate limiter.
C8_Witness ==
    /\ "fallback" \in events
    /\ "rl_denied" \in events
    /\ result = [kind |-> "http_error", status_code |-> 429]

\* The upstream result, if any, matches the automation-failure heuristic.
UpstreamAutomation == upstream_raw # None /\ _looks_like_automation_error(upstream_raw)

\* The record of the request is built from the upstream result if there is
\* one and else from the local FAILED result.
RecordAfterLocalNotFound ==
    /\ result.kind = "record"
    /\ upstream_raw # None =>
           result.out.raw = upstream_raw /\ result.out.source = "upstream"
    /\ upstream_raw = None =>
           /\ result.out.raw = local_raw
           /\ result.out.source = "local"
           /\ result.out.status = "FAILED"

\* C9 as stated: a not-found signal of the extractor is an unsuccessful
\* local result and the request completes with a record.
C9_LocalNotFoundYieldsRecord ==
    "local_not_found" \in events =>
        /\ pc = "done"
        /\ normalize_status(local_raw.v) = "FAILED"
        /\ RecordAfterLocalNotFound

\* C9 amended: as C9, except that the request ends with the 503 error when
\* the upstream result matches the automation-failure heuristic.
C9_LocalNotFoundIsAnOutcome ==
    "local_not_found" \in events =>
        /\ pc = "done"
        /\ local_raw # None
        /\ normalize_status(local_raw.v) = "FAILED"
        /\ IF UpstreamAutomation
           THEN result = [kind |-> "http_error", status_code |-> 503]
           ELSE RecordAfterLocalNotFound

\* The extractor signalled not-found after a failed upstream call and the
\* record is the local FAILED result.
C9_Witness ==
    /\ "local_not_found" \in events
    /\ upstream_raw = None
    /\ result.kind = "record"
    /\ result.out.source = "local"
    /\ result.out.status = "FAILED"

\* C10: a fallback to an extractor whose circuit is open fetches nothing and
\* does not end with the CircuitOpen exception leaving the handler unmapped.
C10_CircuitOpenIsUnavailable ==
    "circuit_open" \in events =>
        /\ local_fetches = 0
        /\ result # [kind |-> "unhandled", exc |-> "CircuitOpen"]

\* The request ended with a record or with a mapped HTTP error.
EndedMapped == pc = "done" /\ result.kind \in {"record", "http_error"}

\* C11: when the fetch of an extractor fails on every retry attempt, the
\* error is caught by the orchestrator and the request ends with a record or
\* a mapped error, the breaker having counted one failure.
C11_ExhaustionIsCaught ==
    "fetch_exhausted" \in events =>
        /\ EndedMapped
        /\ settings.local_circuit_breaker_enabled =>
               breaker[req.provider].consecutive_failures >= 1

\* C12: a response with status 429, 500, 502, 503 or 504 is retried like a
\* network error up to the configured attempts and is recorded as a failure
\* against the breaker.
C12_TransientStatusIsRetried ==
    "status_transient" \in events =>
        /\ local_fetches = Max(1, settings.local_retry_attempts)
        /\ settings.local_circuit_breaker_enabled =>
               breaker[req.provider].consecutive_failures >= 1

\* The response was a 404 or had a content type the extractor does not read.
NotFoundResponse == "status_404" \in events \/ "ctype_mismatch" \in events

\* No fetch follows and the breaker of the provider is closed with no failure.
TerminalSuccess == pc = "done" /\ breaker[req.provider] = NewBreaker

\* C13 as stated: a 404 or a non-matching content type yields the not-found
\* outcome, is not retried and is recorded as a success against the breaker.
C13_NotFoundResponseIsNotFound ==
    NotFoundResponse => ("local_not_found" \in events /\ TerminalSuccess)

\* C13 amended: as C13, except that the telebirr extractor, given a content
\* type it does not read, raises its empty-receipt error when the body has no
\* text and parses a JSON payload embedded in the text when there is one.
C13_NotFoundResponseIsTerminalSuccess ==
    NotFoundResponse =>
        /\ TerminalSuccess
        /\ \/ "local_not_found" \in events
           \/ /\ req.provider = "telebirr"
              /\ "status_404" \notin events
              /\ \/ result = [kind |-> "unhandled", exc |-> "RuntimeError"]
                 \/ local_raw # None /\ IsDict(Get(local_raw.v, "data"))

\* After an exhausted extraction had counted a failure, a 404 of the receipt
\* site closed the breaker again.
C13_Witness ==
    /\ "status_404" \in events
    /\ "local_not_found" \in events
    /\ served >= 2
    /\ breaker[req.provider] = NewBreaker
    /\ local_fetches = 1

\* The raw result that result selection chose.
ChosenRaw == IF raw_ref = "local_raw" THEN local_raw ELSE upstream_raw

\* C14: when the chosen raw result matches the automation-failure heuristic
\* the request ends with 503, no record and no cache entry for the request.
C14_AutomationFailureIs503 ==
    (Handled /\ raw_ref # "none" /\ _looks_like_automation_error(ChosenRaw))
    => /\ result = [kind |-> "http_error", status_code |-> 503]
       /\ "cache_set" \notin events
       /\ cache_key(req) \notin DOMAIN store

\* An upstream result that matches the heuristic was chosen after the local
\* extractor had found nothing.
C14_Witness ==
    /\ Handled
    /\ raw_ref = "upstream_raw"
    /\ "local_not_found" \in events
    /\ _looks_like_automation_error(upstream_raw)
    /\ result = [kind |-> "http_error", status_code |-> 503]

\* The outcome of the upstream call is known.
UpstreamOutcomeKnown == upstream_raw # None \/ upstream_error # NoError

\* C15 as stated: a handler makes at most two outbound calls, one upstream
\* call and then at most one local fetch, after the upstream call has
\* completed.
C15_AtMostTwoOutboundCalls ==
    /\ upstream_calls <= 1
    /\ local_fetches <= 1
    /\ upstream_calls + local_fetches <= 2
    /\ local_fetches > 0 => (pc # "upstream" /\ UpstreamOutcomeKnown)

\* C15 amended: at most one upstream call (none on a cache hit or without an
\* API key), never retried, then at most local_retry_attempts local fetches,
\* none of them before the upstream call has completed.
C15_UpstreamThenLocalFetches ==
    /\ upstream_calls <= 1
    /\ local_fetches <= Max(1, settings.local_retry_attempts)
    /\ (Handled /\ upstream_calls = 0) => ~settings.verify_api_key_set
    /\ pc = "upstream" => (local_fetches = 0 /\ ~UpstreamOutcomeKnown)
    /\ local_fetches > 0 => (pc # "upstream" /\ UpstreamOutcomeKnown)

\* One upstream call was followed by three fetches of the extractor.
C15_Witness ==
    /\ upstream_calls = 1
    /\ local_fetches = 3
    /\ upstream_error.kind = "UpstreamTimeout"

\* The step starts the extractor of the request's provider.
ExtractorStarts ==
    /\ "extractor" \in events'
    /\ pc \notin {"fetch", "sleep"}
    /\ pc' # pc \/ served' # served

\* C16: for an enabled breaker, the failure that reaches the threshold opens
\* the circuit for reset_seconds from that moment; while it is open a call of
\* the extractor raises CircuitOpen and fetches nothing, once reset_seconds
\* have elapsed the fetch is attempted, and a recorded success closes the
\* breaker with the counter at 0.
C16_BreakerOpensAndCloses ==
    [][settings.local_circuit_breaker_enabled =>
          /\ \A p \in LocalProviders :
                 breaker'[p].consecutive_failures > breaker[p].consecutive_failures =>
                     /\ breaker'[p].consecutive_failures =
                            breaker[p].consecutive_failures + 1
                     /\ breaker'[p].consecutive_failures
                            >= Max(1, settings.local_circuit_failure_threshold)
                        => breaker'[p].open_until
                               = now + Max(1, settings.local_circuit_reset_seconds)
          /\ (ExtractorStarts /\ IsAlnum(Strip(req'.reference))) =>
                 IF now < breaker[req'.provider].open_until
                 THEN /\ "circuit_open" \in events'
                      /\ local_fetches' = 0
                      /\ breaker' = breaker
                 ELSE /\ "circuit_open" \notin events'
                      /\ pc' = "fetch"
                      /\ local_fetches' = 1
          /\ ("fetch_returned" \in events' /\ pc = "fetch") =>
                 breaker'[req.provider] = NewBreaker]_vars

\* A call of the extractor was refused because the circuit was open.
C16_Witness ==
    /\ settings.local_circuit_breaker_enabled
    /\ "circuit_open" \in events
    /\ local_fetches = 0
    /\ breaker[req.provider].consecutive_failures
           >= settings.local_circuit_failure_threshold
    /\ now < breaker[req.provider].open_until

\* C17: a fetch that succeeds after k - 1 retryable failures returns after
\* exactly k calls, k at most the configured attempts; a fetch that fails on
\* every attempt is called exactly that many times and the error is re-raised.
C17_RetryCallsCounted ==
    /\ "fetch_returned" \in events =>
           /\ local_fetches = attempt
           /\ attempt <= Max(1, settings.local_retry_attempts)
    /\ "fetch_exhausted" \in events =>
           /\ local_fetches = Max(1, settings.local_retry_attempts)
           /\ result = [kind |-> "unhandled", exc |-> "httpx.RequestError"]

\* With three attempts configured, the fetch failed twice and its third call
\* returned the response the record is built from.
C17_Witness ==
    /\ settings.local_retry_attempts = 3
    /\ "fetch_returned" \in events
    /\ local_fetches = 3
    /\ result.kind = "record"
    /\ result.out.source = "local"

\* C18: a hit is allowed exactly when the hits of the identity in the window,
\* this one included, do not exceed the limit; remaining is
\* max(0, limit - hits), so it is never negative and is 0 on a denied hit.
C18_HitDecision ==
    [][buckets' # buckets =>
          LET p == req'.provider
              hits == buckets'[p][<<(<<ip', p, "local">>), now \div WindowSeconds>>]
              lim == Max(1, LocalLimit(settings, p))
          IN  /\ decision'.allowed = (hits <= lim)
              /\ decision'.remaining = Max(0, lim - hits)
              /\ decision'.remaining >= 0
              /\ hits > lim => (~decision'.allowed /\ decision'.remaining = 0)
              /\ decision'.limit = lim]_vars

\* The hit after the limit was reached was denied with nothing remaining.
C18_Witness ==
    /\ "rl_denied" \in events
    /\ ~decision.allowed
    /\ decision.remaining = 0
    /\ decision.limit >= 1

\* No key of status/result/state holds a string.
NoStatusString(raw) == \A k \in {"status", "result", "state"} : ~IsStr(Get(raw, k))

\* C19: a raw field map with the boolean success = false and no status
\* string normalizes to FAILED, whatever its message and detail say.
C19_SuccessFalseIsFailed ==
    (/\ pc = "normalized"
     /\ Get(upstream_raw.v, "success") = PyBool(FALSE)
     /\ NoStatusString(upstream_raw.v))
    => result.status = "FAILED"

\* A map with success = false and a message that asks to try again was
\* normalized to FAILED.
C19_Witness ==
    /\ pc = "normalized"
    /\ Get(upstream_raw.v, "success") = PyBool(FALSE)
    /\ NoStatusString(upstream_raw.v)
    /\ Get(upstream_raw.v, "message") = PyStr(T_Failed_try_again)
    /\ result.status = "FAILED"

\* No key of status/result/state holds a word of the status vocabulary.
NoStatusWord(raw) ==
    \A k \in {"status", "result", "state"} :
        IsStr(Get(raw, k)) =>
            Lower(Strip(Get(raw, k).v))
                \notin StatusSuccessWords \cup StatusFailedWords \cup StatusPendingWords

\* No success flag: none of success/verified/isVerified/is_verified is a boolean.
NoBoolFlag(raw) ==
    \A k \in {"success", "verified", "isVerified", "is_verified"} : ~IsBool(Get(raw, k))

\* The keywords that normalize_status looks for in a message.
MessageKeywords ==
    {W_pending, W_processing, W_try_again, W_invalid, W_not_found, W_failed, W_success,
     W_verified}

\* Neither message nor detail holds a keyword.
NoMessageKeyword(raw) ==
    \A k \in {"message", "detail"} :
        IsStr(Get(raw, k)) =>
            \A w \in MessageKeywords : ~Contains(Lower(Get(raw, k).v), w)

\* C20: a raw field map with no recognizable status string, no boolean
\* success flag and no recognizable message keyword normalizes to PENDING.
C20_NoEvidenceIsPending ==
    (/\ pc = "normalized"
     /\ NoStatusWord(upstream_raw.v)
     /\ NoBoolFlag(upstream_raw.v)
     /\ NoMessageKeyword(upstream_raw.v))
    => result.status = "PENDING"

\* A map with an unrecognized status string, a non-boolean success field and
\* a message without keyword was normalized to PENDING.
C20_Witness ==
    /\ pc = "normalized"
    /\ Get(upstream_raw.v, "status") = PyStr(T_Failed_try_again)
    /\ Get(upstream_raw.v, "success") = PyStr(T_OK_padded)
    /\ Get(upstream_raw.v, "message") = PyStr(T_OK_padded)
    /\ NoStatusWord(upstream_raw.v)
    /\ NoBoolFlag(upstream_raw.v)
    /\ NoMessageKeyword(upstream_raw.v)
    /\ result.status = "PENDING"

\* A field of a record that holds something: not None, and not a string of
\* white space only.
NonEmptyField(v) == v # None /\ (IsStr(v) => \E i \in 1..Len(v.v) : ~IsSpace(v.v[i]))

\* The number of non-empty fields among amount, payer and date of a record.
FilledCount(out) == Cardinality({k \in {"amount", "payer", "date"} : NonEmptyField(out[k])})

\* The confidence that goes with a status and a number of non-empty fields.
ConfidenceFor(status, filled) ==
    IF status # "SUCCESS" \/ filled = 0 THEN "low"
    ELSE IF filled = 3 THEN "high"
    ELSE "medium"

\* C21: the confidence of every returned record, and of every cached one, is
\* determined by its status and its number of non-empty fields among amount,
\* payer and date: for SUCCESS high with 3, medium with 1 or 2, low with 0;
\* for any other status low.
C21_ConfidenceFromStatusAndFields ==
    /\ result.kind = "record" =>
           result.out.confidence = ConfidenceFor(result.out.status, FilledCount(result.out))
    /\ \A k \in DOMAIN store :
           store[k].value.confidence
               = ConfidenceFor(store[k].value.status, FilledCount(store[k].value))

\* A SUCCESS record with one or two non-empty fields was returned with
\* medium confidence.
C21_Witness ==
    /\ result.kind = "record"
    /\ result.out.status = "SUCCESS"
    /\ FilledCount(result.out) \in {1, 2}
    /\ result.out.confidence = "medium"

\* C22: on a receipt text that contains "Transferred Amount 1,250.00 ETB" and
\* the decoy "VAT 15%", wherever the decoy sits and whatever else the text
\* holds, the CBE amount extraction yields 1250.00, and so does the amount
\* normalize_fields takes from the extractor's result.
C22_LabeledAmountWins ==
    \A resp \in world.cbe :
        (/\ pc = "parsed"
         /\ Contains(resp.doc.text, T_Transferred_Amount_1250)
         /\ Contains(resp.doc.text, T_VAT_15_percent))
        => /\ local_raw.v["data"].v["amount"] = PyFloat(125000)
           /\ result.amount = PyFloat(125000)

\* The amount was taken from a text where the decoy "VAT 15%" comes first,
\* the labeled amount second and "Fee 15 ETB" last.
C22_Witness ==
    /\ pc = "parsed"
    /\ \E resp \in world.cbe :
           resp.doc.text
               = JoinSegments(<<T_VAT_15_percent, T_Transferred_Amount_1250, T_Fee_15_ETB>>)
    /\ result.amount = PyFloat(125000)

\* The step is a cache.get.
IsCacheGet == now' = now /\ result'.kind = "get"

\* The step is a cache.set.
IsCacheSet == now' = now /\ result'.kind = "set"

\* The key was set, the last time at s, and now < s + TTL.
FreshAt(key) ==
    key \in DOMAIN history /\ now < history[key].set_at + settings.cache_ttl_seconds

\* C24: a get at time t for a key last set at time s returns the stored value
\* if and only if t < s + TTL, and leaves the cache as it is; a get at
\* t >= s + TTL returns absent and removes the entry; a set writes the value
\* with expiry now + TTL, whatever entry the key had; no other key is touched.
C24_GetAndSet ==
    [][/\ (IsCacheGet /\ FreshAt(result'.key))
            => /\ result'.value = store[result'.key].value
               /\ store' = store
       /\ (IsCacheGet /\ ~FreshAt(result'.key))
            => /\ result'.value = None
               /\ result'.key \notin DOMAIN store'
               /\ \A k \in DOMAIN store \ {result'.key} :
                      k \in DOMAIN store' /\ store'[k] = store[k]
       /\ IsCacheSet
            => /\ store'[result'.key]
                    = [value |-> result'.value,
                       expires_at |-> now + settings.cache_ttl_seconds]
               /\ DOMAIN store' = DOMAIN store \cup {result'.key}
               /\ \A k \in DOMAIN store \ {result'.key} : store'[k] = store[k]]_vars

\* A key set at 0 and set again at 1 is still served at 2, after the expiry
\* of its first entry, with the value of the second set.
C24_Witness ==
    /\ now = 2
    /\ result.kind = "get"
    /\ result.key \in DOMAIN history
    /\ history[result.key].set_at = 1
    /\ result.value # None
    /\ store[result.key] = [value |-> result.value, expires_at |-> 3]

\* C25: with enabled = false, before_call never raises, whatever failures
\* and successes were recorded, and record_failure leaves the
\* consecutive-failure counter and the open-until timestamp as they are.
C25_DisabledBreakerIsInert ==
    ~settings.local_circuit_breaker_enabled
    => /\ \A p \in LocalProviders : breaker[p] = NewBreaker
       /\ result.kind = "before_call" => ~result.raised

\* With the breaker disabled, before_call returned after more failures in a
\* row than the threshold.
C25_Witness ==
    /\ ~settings.local_circuit_breaker_enabled
    /\ result.kind = "before_call"
    /\ ~result.raised
    /\ history[result.provider].failures > settings.local_circuit_failure_threshold
    /\ breaker[result.provider] = NewBreaker

\* The step is a record_success.
IsRecordSuccess == now' = now /\ result'.kind = "record_success"

\* C29: every record_success leaves the consecutive-failure counter at 0 and
\* the circuit closed, also when it is recorded while the circuit is open;
\* and as long as fewer than failure_threshold failures were recorded since
\* the last success, the circuit is not open and before_call does not raise.
C29_OnlyConsecutiveFailuresOpen ==
    [][/\ IsRecordSuccess => breaker'[result'.provider] = NewBreaker
       /\ \A p \in LocalProviders :
              history'[p].failures < Max(1, settings.local_circuit_failure_threshold)
              => /\ breaker'[p].open_until = 0
                 /\ (result'.kind = "before_call" /\ result'.provider = p)
                        => ~result'.raised]_vars

\* A success was recorded while the circuit was open, and closed it.
C29_Witness ==
    /\ settings.local_circuit_breaker_enabled
    /\ result.kind = "record_success"
    /\ history[result.provider].success_while_open
    /\ breaker[result.provider] = NewBreaker

\* C30: for an enabled breaker, a non-zero open-until timestamp implies that
\* the consecutive-failure counter is at least failure_threshold.
C30_OpenImpliesThreshold ==
    settings.local_circuit_breaker_enabled
    => \A p \in LocalProviders :
           breaker[p].open_until # 0
           => breaker[p].consecutive_failures
                  >= Max(1, settings.local_circuit_failure_threshold)

\* The reset window of an opened circuit has elapsed: the timestamp is still
\* set and the counter is still at the threshold.
C30_Witness ==
    /\ settings.local_circuit_breaker_enabled
    /\ \E p \in LocalProviders :
           /\ breaker[p].open_until # 0
           /\ now >= breaker[p].open_until
           /\ breaker[p].consecutive_failures
                  = Max(1, settings.local_circuit_failure_threshold)

\* retry_async has returned or raised.
RetryEnded == pc = "done"

\* C26: retry_async calls the operation at most max(1, attempts) times and
\* always ends; an exception that is not retryable leaves it at once, with
\* no further call; it sleeps only after a failed attempt that is followed
\* by another one, never after the last.
C26_RetryIsBoundedAndEnds ==
    /\ [](local_fetches <= Max(1, settings.local_retry_attempts))
    /\ [](pc = "sleep" => attempt < Max(1, settings.local_retry_attempts))
    /\ [][/\ ("fetch_not_retryable" \in events' /\ "fetch_not_retryable" \notin events)
              => /\ RetryEnded'
                 /\ result' = [kind |-> "unhandled", exc |-> "httpx.InvalidURL"]
                 /\ local_fetches' = local_fetches
                 /\ "sleep" \in events' <=> "sleep" \in events
          /\ RetryEnded => (local_fetches' = local_fetches /\ RetryEnded')]_vars
    /\ <>RetryEnded

\* With three attempts configured, the second fetch, made after a sleep,
\* raised an exception that is not retryable: there was no third fetch.
C26_Witness ==
    /\ settings.local_retry_attempts = 3
    /\ RetryEnded
    /\ "fetch_not_retryable" \in events
    /\ "sleep" \in events
    /\ local_fetches = 2

\* The step is a hit of a limiter.
IsLimiterHit == now' = now /\ result'.kind = "hit"

\* The bucket keys of limiter p once the hit of the step has counted.
KeysAfterCount == DOMAIN buckets[result'.provider]
                      \cup {<<result'.identity, now \div WindowSeconds>>}

\* The hit of the step leaves more buckets than the high-water mark.
AboveHighWater == Cardinality(KeysAfterCount) > CompactionHighWater

\* The window of a bucket key is the current or the preceding one.
IsRecentKey(k) == k[2] = now \div WindowSeconds \/ k[2] = (now \div WindowSeconds) - 1

\* C27: when a hit leaves more buckets than the high-water mark, the buckets
\* of every window other than the current and the preceding one are dropped,
\* and the buckets of these two windows are kept with their counts (the one
\* that was hit counted once more); a hit that leaves no more buckets than
\* the mark drops none.  With or without compaction the answer is the one
\* that the count of the bucket gives.
C27_CompactionKeepsRecentWindows ==
    [][IsLimiterHit =>
         /\ DOMAIN buckets'[result'.provider]
                = IF AboveHighWater THEN {k \in KeysAfterCount : IsRecentKey(k)}
                  ELSE KeysAfterCount
         /\ \A k \in DOMAIN buckets'[result'.provider] :
                buckets'[result'.provider][k]
                    = IF k = <<result'.identity, now \div WindowSeconds>>
                      THEN BucketCount(buckets[result'.provider], result'.identity, now) + 1
                      ELSE buckets[result'.provider][k]
         /\ decision'.allowed
                = (BucketCount(buckets'[result'.provider], result'.identity, now)
                       <= decision'.limit)
         /\ decision'.remaining
                = Max(0, decision'.limit
                             - BucketCount(buckets'[result'.provider], result'.identity, now))
      ]_vars

\* A hit has dropped a bucket of an older window and kept one of the
\* preceding window.
C27_Witness ==
    /\ result.kind = "hit"
    /\ \E k \in history[result.provider] :
           /\ k \notin DOMAIN buckets[result.provider]
           /\ k[2] < (now \div WindowSeconds) - 1
    /\ \E k \in DOMAIN buckets[result.provider] : k[2] = (now \div WindowSeconds) - 1
    /\ <<result.identity, now \div WindowSeconds>> \in DOMAIN buckets[result.provider]

\* The key holds a string that is a word of the status vocabulary.
HoldsStatusWord(raw, k) ==
    /\ IsStr(Get(raw, k))
    /\ Lower(Strip(Get(raw, k).v))
           \in StatusSuccessWords \cup StatusFailedWords \cup StatusPendingWords

\* The status that the word of the key stands for.
StatusOfWord(raw, k) ==
    IF Lower(Strip(Get(raw, k).v)) \in StatusSuccessWords THEN "SUCCESS"
    ELSE IF Lower(Strip(Get(raw, k).v)) \in StatusFailedWords THEN "FAILED"
    ELSE "PENDING"

\* The first key of the sequence that satisfies P, or "" when none does.
FirstKey(keys, P(_)) ==
    IF \E i \in 1..Len(keys) : P(keys[i])
    THEN keys[CHOOSE i \in 1..Len(keys) : P(keys[i]) /\ \A j \in 1..(i - 1) : ~P(keys[j])]
    ELSE ""

\* The text that is scanned for keywords: the message, or the detail when
\* the message is absent or empty; <<>> when that is not a string.
ScannedText(raw) ==
    IF Truthy(Get(raw, "message"))
    THEN (IF IsStr(Get(raw, "message")) THEN Lower(Get(raw, "message").v) ELSE <<>>)
    ELSE (IF IsStr(Get(raw, "detail")) THEN Lower(Get(raw, "detail").v) ELSE <<>>)

HasKeyword(text, words) == \E w \in words : Contains(text, w)

\* The status that the evidence of a raw map gives, source by source.
StatusByPriority(raw) ==
    LET hasWord(k) == HoldsStatusWord(raw, k)
        isFlag(k) == IsBool(Get(raw, k))
        wordKey == FirstKey(<<"status", "result", "state">>, hasWord)
        flagKey == FirstKey(<<"success", "verified", "isVerified", "is_verified">>, isFlag)
        text == ScannedText(raw)
    IN  IF wordKey # "" THEN StatusOfWord(raw, wordKey)
        ELSE IF flagKey # "" THEN (IF Get(raw, flagKey).v THEN "SUCCESS" ELSE "FAILED")
        ELSE IF HasKeyword(text, {W_pending, W_processing, W_try_again}) THEN "PENDING"
        ELSE IF HasKeyword(text, {W_invalid, W_not_found, W_failed}) THEN "FAILED"
        ELSE IF HasKeyword(text, {W_success, W_verified}) THEN "SUCCESS"
        ELSE "PENDING"

\* C28: normalize_status takes its evidence in strict priority order: the
\* first status/result/state string that is a word of the vocabulary
\* decides, whatever the flags and the message say; otherwise the first
\* boolean flag decides, whatever the message says; otherwise the message
\* text (the detail when there is no message) decides, its pending keywords
\* before its failure keywords and these before its success keywords;
\* otherwise the status is PENDING.
C28_StrictPriorityOrder ==
    pc = "normalized" => result.status = StatusByPriority(upstream_raw.v)

\* A map whose status word says success, whose flag says failure and whose
\* message says pending was normalized to SUCCESS.
C28_Witness ==
    /\ pc = "normalized"
    /\ Get(upstream_raw.v, "status") = PyStr(T_OK_padded)
    /\ Get(upstream_raw.v, "success") = PyBool(FALSE)
    /\ Get(upstream_raw.v, "message") = PyStr(T_Failed_try_again)
    /\ result.status = "SUCCESS"

\* The count of bucket key k in the limiter that the key belongs to.
CountInBucket(k) ==
    IF k \in DOMAIN buckets[k[1][2]] THEN buckets[k[1][2]][k] ELSE 0

\* C23: however the steps of the concurrently handled requests interleave,
\* for every identity and window the hits answered allowed are no more than
\* the limit, and the count of the bucket is the number of hits made.
C23_LimiterSafeUnderConcurrency ==
    pc = "concurrent" =>
        \A k \in DOMAIN history :
            /\ history[k].allowed <= LocalLimit(settings, k[1][2])
            /\ CountInBucket(k) = history[k].made

\* Three handlers were in progress at once and hit the same bucket: the
\* third hit was refused and its handler has answered while the first two
\* handlers are still fetching.
C23_Witness ==
    /\ pc = "concurrent"
    /\ \E k \in DOMAIN history :
           /\ history[k].made = 3
           /\ history[k].allowed = LocalLimit(settings, k[1][2])
           /\ CountInBucket(k) = 3
    /\ \E h1, h2, h3 \in DOMAIN handlers :
           /\ h1 # h2
           /\ handlers[h1].pc \in {"fetch", "sleep"}
           /\ handlers[h2].pc \in {"fetch", "sleep"}
           /\ handlers[h3].pc = "done"

\* The reset window of the open circuit of p has elapsed.
WindowElapsed(p) == breaker[p].open_until # 0 /\ now >= breaker[p].open_until

\* C31: the passage of time leaves the counter and the timestamp of a
\* breaker as they are; once the circuit has opened and its reset window has
\* elapsed, every before_call is admitted, and a single recorded failure,
\* with no success in between, opens the circuit again for a full reset
\* window.
C31_HalfOpen ==
    [][/\ now' # now => breaker' = breaker
       /\ \A p \in LocalProviders :
              (settings.local_circuit_breaker_enabled /\ WindowElapsed(p) /\ now' = now
               /\ result'.provider = p)
              => /\ result'.kind = "before_call"
                     => ~result'.raised /\ breaker'[p] = breaker[p]
                 /\ result'.kind = "record_failure"
                     => /\ breaker'[p].open_until
                               = now + Max(1, settings.local_circuit_reset_seconds)
                        /\ breaker'[p].consecutive_failures
                               = breaker[p].consecutive_failures + 1
                        /\ CircuitBreaker_before_call(breaker'[p], now, settings)]_vars

\* A failure recorded after the reset window had elapsed has opened the
\* circuit again for a full window.
C31_Witness ==
    /\ settings.local_circuit_breaker_enabled
    /\ result.kind = "record_failure"
    /\ history[result.provider].failure_after_window
    /\ breaker[result.provider].open_until
           = now + Max(1, settings.local_circuit_reset_seconds)
    /\ breaker[result.provider].consecutive_failures
           > Max(1, settings.local_circuit_failure_threshold)

\* The store without the entry of key when that entry has expired: what the
\* cache.get of an arriving request leaves.
WithoutExpired(key) ==
    IF key \in DOMAIN store /\ now >= store[key].expires_at
    THEN [k \in DOMAIN store \ {key} |-> store[k]]
    ELSE store

\* The step is the arrival of a request.
IsArrival == served' = served + 1

\* The step ends a request with a verification record that was not served
\* from the cache.
EndsWithFreshRecord ==
    pc' = "done" /\ pc # "done" /\ result'.kind = "record" /\ "cache_hit" \notin events'

\* The original statement of C32 implies that no entry ever leaves the
\* cache in a request that ends in an error: the entry of the key of such a
\* request, once written, is still in the store when the request has ended.
C32_ErrorLeavesCacheUnchanged ==
    (pc = "done" /\ result.kind # "record" /\ cache_key(req) \in DOMAIN origin)
    => cache_key(req) \in DOMAIN store

\* C32 (amended): an entry is written only by the step that ends a request
\* with a verification record, under the key of the request and with the
\* expiry now + ttl; every other step, in a request that ends in an error or
\* is served from the cache included, writes no entry and changes none.  The
\* only other change is made by the lookup of an arriving request, which
\* removes the entry of its own key when that entry has expired; a cache hit
\* leaves the store as it is.
C32_CacheWrittenOnlyWithRecord ==
    [][/\ IF IsArrival /\ ~EndsWithFreshRecord
          THEN store' = WithoutExpired(cache_key(req'))
          ELSE IF EndsWithFreshRecord
          THEN /\ DOMAIN store' = DOMAIN store \cup {cache_key(req')}
               /\ store'[cache_key(req')]
                      = [value |-> result'.out,
                         expires_at |-> now + settings.cache_ttl_seconds]
               /\ \A k \in DOMAIN store \ {cache_key(req')} : store'[k] = store[k]
          ELSE store' = store
       /\ (IsArrival /\ "cache_hit" \in events') => store' = store
      ]_vars

\* A request has ended in an HTTP error after the expired entry of its key
\* was removed by a lookup: no entry was written for it.
C32_Witness ==
    /\ pc = "done"
    /\ result.kind = "http_error"
    /\ cache_key(req) \in DOMAIN origin
    /\ cache_key(req) \notin DOMAIN store

\* C33: for a provider without a local extractor, or with its local
\* extractor disabled by configuration, a reference-based request never
\* increments a local rate-limit bucket and never fails with the local 429:
\* the answer to a request with an upstream result is not 429.
C33_LimiterOnlyBeforeExtraction ==
    /\ \A p \in LocalProviders : ~LocalEnabled(settings, p) => buckets[p] = EmptyMap
    /\ (pc = "done" /\ ~LocalEnabled(settings, req.provider))
       => /\ "rl_hit" \notin events
          /\ result # [kind |-> "http_error", status_code |-> 429]

====
